---------------------------- MODULE Spec2Model ----------------------------
(***************************************************************************)
(* A model of the xswl-scpi library: the bounded error queue, the status   *)
(* register, the execution Context, the lexer, the command splitter, the   *)
(* pattern parser, the command tree with its registration rules, the path  *)
(* resolver and the dispatcher Parser::executeAll.                         *)
(*                                                                         *)
(* Program messages and registration patterns are strings, read one        *)
(* character at a time as the code reads them.  A tree node is named by    *)
(* the sequence of child-map keys leading to it from the root.             *)
(***************************************************************************)
EXTENDS Integers, Sequences, FiniteSets, TLC

VARIABLES
    ctx,          \* the Context handed to executeAll (error queue, status, responses, ...)
    tree,         \* CommandTree: node key-path -> CommandNode record
    commonCommands, \* CommandTree::commonCommands_: normalized name -> handler
    autoResetContext, \* Parser::autoResetContext_
    pathContext,  \* Parser::pathContext_ (NullNode is the null pointer, meaning root)
    pc,           \* position of the running executeAll call, or "idle"
    cmds,         \* executeAll's local vector of ParsedCommand
    idx,          \* executeAll's loop index i (1-based)
    lastRc,       \* executeAll's local lastRc
    ret,          \* the value the last finished executeAll call returned
    rr,           \* executeAll's local ResolveResult of the command at idx
    obs           \* observations of the current call kept for the properties

vars == <<ctx, tree, commonCommands, autoResetContext, pathContext, pc, cmds, idx, lastRc, ret, rr, obs>>

(***************************************************************************)
(* Bounds of the model.                                                    *)
(***************************************************************************)
MaxCap == 2            \* largest error-queue capacity tried
MaxPushes == 4         \* pushes in one run of the stand-alone queue
MaxCalls == 2          \* executeAll calls in one run
MaxRegs == 2           \* registrations in one run of the registration phase

(***************************************************************************)
(* Error codes (error_codes.h) and their default messages.                 *)
(***************************************************************************)
NO_ERROR == 0
COMMAND_ERROR == -100
INVALID_CHARACTER == -101
SYNTAX_ERROR == -102
INVALID_SEPARATOR == -103
DATA_TYPE_ERROR == -104
GET_NOT_ALLOWED == -105
PARAMETER_NOT_ALLOWED == -108
MISSING_PARAMETER == -109
COMMAND_HEADER_ERROR == -110
HEADER_SEPARATOR_ERROR == -111
PROGRAM_MNEMONIC_TOO_LONG == -112
UNDEFINED_HEADER == -113
HEADER_SUFFIX_OUT_OF_RANGE == -114
UNEXPECTED_NUMBER_OF_PARAMS == -115
NUMERIC_DATA_ERROR == -120
INVALID_CHAR_IN_NUMBER == -121
EXPONENT_TOO_LARGE == -123
TOO_MANY_DIGITS == -124
NUMERIC_DATA_NOT_ALLOWED == -128
SUFFIX_ERROR == -130
INVALID_SUFFIX == -131
SUFFIX_TOO_LONG == -134
SUFFIX_NOT_ALLOWED == -138
CHARACTER_DATA_ERROR == -140
INVALID_CHARACTER_DATA == -141
CHARACTER_DATA_TOO_LONG == -144
CHARACTER_DATA_NOT_ALLOWED == -148
STRING_DATA_ERROR == -150
INVALID_STRING_DATA == -151
STRING_DATA_NOT_ALLOWED == -158
BLOCK_DATA_ERROR == -160
INVALID_BLOCK_DATA == -161
BLOCK_DATA_NOT_ALLOWED == -168
EXPRESSION_ERROR == -170
INVALID_EXPRESSION == -171
EXPRESSION_NOT_ALLOWED == -178
MACRO_DEFINITION_ERROR == -180
EXECUTION_ERROR == -200
INVALID_WHILE_IN_LOCAL == -201
SETTINGS_LOST_DUE_TO_RTL == -202
COMMAND_PROTECTED == -203
TRIGGER_ERROR == -210
TRIGGER_IGNORED == -211
ARM_IGNORED == -212
INIT_IGNORED == -213
TRIGGER_DEADLOCK == -214
ARM_DEADLOCK == -215
PARAMETER_ERROR == -220
SETTINGS_CONFLICT == -221
DATA_OUT_OF_RANGE == -222
TOO_MUCH_DATA == -223
ILLEGAL_PARAMETER_VALUE == -224
OUT_OF_MEMORY == -225
LISTS_NOT_SAME_LENGTH == -226
DATA_CORRUPT_OR_STALE == -230
DATA_QUESTIONABLE == -231
INVALID_FORMAT == -232
INVALID_VERSION == -233
HARDWARE_ERROR == -240
HARDWARE_MISSING == -241
MASS_STORAGE_ERROR == -250
MISSING_MASS_STORAGE == -251
MISSING_MEDIA == -252
CORRUPT_MEDIA == -253
MEDIA_FULL == -254
DIRECTORY_FULL == -255
FILE_NOT_FOUND == -256
FILE_NAME_ERROR == -257
MEDIA_PROTECTED == -258
EXPRESSION_EXEC_ERROR == -260
MATH_ERROR_IN_EXPRESSION == -261
DEVICE_SPECIFIC_ERROR == -300
SYSTEM_ERROR == -310
MEMORY_ERROR == -311
PUD_MEMORY_LOST == -312
CALIBRATION_MEMORY_LOST == -313
SAVE_RECALL_MEMORY_LOST == -314
CONFIGURATION_MEMORY_LOST == -315
STORAGE_FAULT == -320
OUT_OF_DEVICE_MEMORY == -321
SELF_TEST_FAILED == -330
CALIBRATION_FAILED == -340
QUEUE_OVERFLOW == -350
COMMUNICATION_ERROR == -360
PARITY_ERROR == -361
FRAMING_ERROR == -362
INPUT_BUFFER_OVERRUN == -363
TIMEOUT_ERROR == -365
QUERY_ERROR == -400
QUERY_INTERRUPTED == -410
QUERY_UNTERMINATED == -420
QUERY_DEADLOCKED == -430
QUERY_UNTERMINATED_INDEF == -440

isCommandError(code) == code <= -100 /\ code >= -199
isExecutionError(code) == code <= -200 /\ code >= -299
isDeviceError(code) == code <= -300 /\ code >= -399
isQueryError(code) == code <= -400 /\ code >= -499

getStandardMessage(code) ==
    CASE code = NO_ERROR -> "No error"
      [] code = COMMAND_ERROR -> "Command error"
      [] code = INVALID_CHARACTER -> "Invalid character"
      [] code = SYNTAX_ERROR -> "Syntax error"
      [] code = INVALID_SEPARATOR -> "Invalid separator"
      [] code = DATA_TYPE_ERROR -> "Data type error"
      [] code = GET_NOT_ALLOWED -> "GET not allowed"
      [] code = PARAMETER_NOT_ALLOWED -> "Parameter not allowed"
      [] code = MISSING_PARAMETER -> "Missing parameter"
      [] code = COMMAND_HEADER_ERROR -> "Command header error"
      [] code = HEADER_SEPARATOR_ERROR -> "Header separator error"
      [] code = PROGRAM_MNEMONIC_TOO_LONG -> "Program mnemonic too long"
      [] code = UNDEFINED_HEADER -> "Undefined header"
      [] code = HEADER_SUFFIX_OUT_OF_RANGE -> "Header suffix out of range"
      [] code = UNEXPECTED_NUMBER_OF_PARAMS -> "Unexpected number of parameters"
      [] code = NUMERIC_DATA_ERROR -> "Numeric data error"
      [] code = INVALID_CHAR_IN_NUMBER -> "Invalid character in number"
      [] code = EXPONENT_TOO_LARGE -> "Exponent too large"
      [] code = TOO_MANY_DIGITS -> "Too many digits"
      [] code = NUMERIC_DATA_NOT_ALLOWED -> "Numeric data not allowed"
      [] code = SUFFIX_ERROR -> "Suffix error"
      [] code = INVALID_SUFFIX -> "Invalid suffix"
      [] code = SUFFIX_TOO_LONG -> "Suffix too long"
      [] code = SUFFIX_NOT_ALLOWED -> "Suffix not allowed"
      [] code = CHARACTER_DATA_ERROR -> "Character data error"
      [] code = INVALID_CHARACTER_DATA -> "Invalid character data"
      [] code = CHARACTER_DATA_TOO_LONG -> "Character data too long"
      [] code = CHARACTER_DATA_NOT_ALLOWED -> "Character data not allowed"
      [] code = STRING_DATA_ERROR -> "String data error"
      [] code = INVALID_STRING_DATA -> "Invalid string data"
      [] code = STRING_DATA_NOT_ALLOWED -> "String data not allowed"
      [] code = BLOCK_DATA_ERROR -> "Block data error"
      [] code = INVALID_BLOCK_DATA -> "Invalid block data"
      [] code = BLOCK_DATA_NOT_ALLOWED -> "Block data not allowed"
      [] code = EXPRESSION_ERROR -> "Expression error"
      [] code = INVALID_EXPRESSION -> "Invalid expression"
      [] code = EXPRESSION_NOT_ALLOWED -> "Expression data not allowed"
      [] code = MACRO_DEFINITION_ERROR -> "Macro error"
      [] code = EXECUTION_ERROR -> "Execution error"
      [] code = INVALID_WHILE_IN_LOCAL -> "Invalid while in local"
      [] code = SETTINGS_LOST_DUE_TO_RTL -> "Settings lost due to rtl"
      [] code = COMMAND_PROTECTED -> "Command protected"
      [] code = TRIGGER_ERROR -> "Trigger error"
      [] code = TRIGGER_IGNORED -> "Trigger ignored"
      [] code = ARM_IGNORED -> "Arm ignored"
      [] code = INIT_IGNORED -> "Init ignored"
      [] code = TRIGGER_DEADLOCK -> "Trigger deadlock"
      [] code = ARM_DEADLOCK -> "Arm deadlock"
      [] code = PARAMETER_ERROR -> "Parameter error"
      [] code = SETTINGS_CONFLICT -> "Settings conflict"
      [] code = DATA_OUT_OF_RANGE -> "Data out of range"
      [] code = TOO_MUCH_DATA -> "Too much data"
      [] code = ILLEGAL_PARAMETER_VALUE -> "Illegal parameter value"
      [] code = OUT_OF_MEMORY -> "Out of memory"
      [] code = LISTS_NOT_SAME_LENGTH -> "Lists not same length"
      [] code = DATA_CORRUPT_OR_STALE -> "Data corrupt or stale"
      [] code = DATA_QUESTIONABLE -> "Data questionable"
      [] code = INVALID_FORMAT -> "Invalid format"
      [] code = INVALID_VERSION -> "Invalid version"
      [] code = HARDWARE_ERROR -> "Hardware error"
      [] code = HARDWARE_MISSING -> "Hardware missing"
      [] code = MASS_STORAGE_ERROR -> "Mass storage error"
      [] code = MISSING_MASS_STORAGE -> "Missing mass storage"
      [] code = MISSING_MEDIA -> "Missing media"
      [] code = CORRUPT_MEDIA -> "Corrupt media"
      [] code = MEDIA_FULL -> "Media full"
      [] code = DIRECTORY_FULL -> "Directory full"
      [] code = FILE_NOT_FOUND -> "File name not found"
      [] code = FILE_NAME_ERROR -> "File name error"
      [] code = MEDIA_PROTECTED -> "Media protected"
      [] code = EXPRESSION_EXEC_ERROR -> "Expression error"
      [] code = MATH_ERROR_IN_EXPRESSION -> "Math error in expression"
      [] code = DEVICE_SPECIFIC_ERROR -> "Device-specific error"
      [] code = SYSTEM_ERROR -> "System error"
      [] code = MEMORY_ERROR -> "Memory error"
      [] code = PUD_MEMORY_LOST -> "PUD memory lost"
      [] code = CALIBRATION_MEMORY_LOST -> "Calibration memory lost"
      [] code = SAVE_RECALL_MEMORY_LOST -> "Save/recall memory lost"
      [] code = CONFIGURATION_MEMORY_LOST -> "Configuration memory lost"
      [] code = STORAGE_FAULT -> "Storage fault"
      [] code = OUT_OF_DEVICE_MEMORY -> "Out of memory"
      [] code = SELF_TEST_FAILED -> "Self-test failed"
      [] code = CALIBRATION_FAILED -> "Calibration failed"
      [] code = QUEUE_OVERFLOW -> "Queue overflow"
      [] code = COMMUNICATION_ERROR -> "Communication error"
      [] code = PARITY_ERROR -> "Parity error in program message"
      [] code = FRAMING_ERROR -> "Framing error in program message"
      [] code = INPUT_BUFFER_OVERRUN -> "Input buffer overrun"
      [] code = TIMEOUT_ERROR -> "Time out error"
      [] code = QUERY_ERROR -> "Query error"
      [] code = QUERY_INTERRUPTED -> "Query INTERRUPTED"
      [] code = QUERY_UNTERMINATED -> "Query UNTERMINATED"
      [] code = QUERY_DEADLOCKED -> "Query DEADLOCKED"
      [] code = QUERY_UNTERMINATED_INDEF -> "Query UNTERMINATED after indefinite response"
      [] OTHER -> IF code > 0 THEN "Device-defined error" ELSE "Unknown error"

(***************************************************************************)
(* ErrorQueue (error_queue.cpp).  An entry is its code and message; the    *)
(* timestamp and the context string are never read by the library.         *)
(***************************************************************************)
ErrorEntry(code, message) == [code |-> code, message |-> message]

NO_ERROR_ENTRY == ErrorEntry(NO_ERROR, "No error")

ErrorQueue_new(maxSize) ==
    [queue |-> <<>>,
     maxSize |-> IF maxSize < 1 THEN 1 ELSE maxSize,
     overflowCount |-> 0,
     hasOverflowed |-> FALSE]

\* The overflow branch of push: the tail becomes -350 and the new entry is dropped.
ErrorQueue_overflow(q) ==
    [q EXCEPT !.hasOverflowed = TRUE,
              !.overflowCount = @ + 1,
              !.queue = IF q.queue # <<>> /\ q.queue[Len(q.queue)].code # QUEUE_OVERFLOW
                        THEN [@ EXCEPT ![Len(q.queue)] =
                                  ErrorEntry(QUEUE_OVERFLOW, getStandardMessage(QUEUE_OVERFLOW))]
                        ELSE @]

\* A push that drops the new entry of a full queue without marking the tail.
ErrorQueue_push_silentDrop(q, entry) ==
    IF entry.code = NO_ERROR THEN q
    ELSE IF Len(q.queue) >= q.maxSize
         THEN [q EXCEPT !.hasOverflowed = TRUE, !.overflowCount = @ + 1]
         ELSE [q EXCEPT !.queue = Append(@, entry)]

ErrorQueue_push(q, entry) ==
    IF entry.code = NO_ERROR THEN q
    ELSE IF Len(q.queue) >= q.maxSize
         THEN ErrorQueue_overflow(q)
         ELSE [q EXCEPT !.queue = Append(@, entry)]

\* A pop that hands out the newest entry.
ErrorQueue_pop_newest(q) ==
    IF q.queue = <<>>
    THEN [entry |-> NO_ERROR_ENTRY, q |-> q]
    ELSE [entry |-> q.queue[Len(q.queue)],
          q |-> [q EXCEPT !.queue = SubSeq(@, 1, Len(@) - 1)]]

\* pop returns the entry and the queue left behind.
ErrorQueue_pop(q) ==
    IF q.queue = <<>>
    THEN [entry |-> NO_ERROR_ENTRY, q |-> q]
    ELSE [entry |-> Head(q.queue), q |-> [q EXCEPT !.queue = Tail(@)]]

ErrorQueue_popAll(q) == [result |-> q.queue, q |-> [q EXCEPT !.queue = <<>>]]

ErrorQueue_count(q) == Len(q.queue)

ErrorQueue_empty(q) == q.queue = <<>>

ErrorQueue_lastErrorCode(q) ==
    IF q.queue = <<>> THEN NO_ERROR ELSE q.queue[Len(q.queue)].code

ErrorQueue_clear(q) == [q EXCEPT !.queue = <<>>]

ErrorQueue_setMaxSize(q, size) ==
    LET m == IF size < 1 THEN 1 ELSE size
        n == Len(q.queue)
    IN  IF n > m
        THEN [q EXCEPT !.maxSize = m,
                       !.queue = SubSeq(@, 1, m),
                       !.overflowCount = @ + (n - m),
                       !.hasOverflowed = TRUE]
        ELSE [q EXCEPT !.maxSize = m]

ErrorQueue_resetOverflowCount(q) ==
    [q EXCEPT !.overflowCount = 0, !.hasOverflowed = FALSE]

(***************************************************************************)
(* StatusRegister (status_register.cpp): three 8-bit registers.            *)
(***************************************************************************)
Pow2(n) == IF n = 0 THEN 1 ELSE IF n = 1 THEN 2 ELSE IF n = 2 THEN 4
           ELSE IF n = 3 THEN 8 ELSE IF n = 4 THEN 16 ELSE IF n = 5 THEN 32
           ELSE IF n = 6 THEN 64 ELSE 128

TestBit(v, bit) == (v \div Pow2(bit)) % 2 = 1

BitOr1(v, bit) == IF TestBit(v, bit) THEN v ELSE v + Pow2(bit)

RECURSIVE BitAndFrom(_, _, _)
BitAndFrom(a, b, bit) ==
    IF bit > 7 THEN 0
    ELSE (IF TestBit(a, bit) /\ TestBit(b, bit) THEN Pow2(bit) ELSE 0)
         + BitAndFrom(a, b, bit + 1)

BitAnd(a, b) == BitAndFrom(a, b, 0)

StatusRegister_new == [esr |-> 0, ese |-> 0, sre |-> 0]

StatusRegister_setESRBit(st, bit) ==
    IF bit < 0 \/ bit > 7 THEN st ELSE [st EXCEPT !.esr = BitOr1(@, bit)]

StatusRegister_setOPC(st) == StatusRegister_setESRBit(st, 0)

\* A setErrorByCode that has no bit for the query errors.
StatusRegister_setErrorByCode_noQueryBit(st, scpiErr) ==
    IF isCommandError(scpiErr) THEN StatusRegister_setESRBit(st, 5)
    ELSE IF isExecutionError(scpiErr) THEN StatusRegister_setESRBit(st, 4)
    ELSE IF isDeviceError(scpiErr) THEN StatusRegister_setESRBit(st, 3)
    ELSE st

StatusRegister_setErrorByCode(st, scpiErr) ==
    IF isCommandError(scpiErr) THEN StatusRegister_setESRBit(st, 5)
    ELSE IF isExecutionError(scpiErr) THEN StatusRegister_setESRBit(st, 4)
    ELSE IF isDeviceError(scpiErr) THEN StatusRegister_setESRBit(st, 3)
    ELSE IF isQueryError(scpiErr) THEN StatusRegister_setESRBit(st, 2)
    ELSE st

StatusRegister_readAndClearESR(st) == [v |-> st.esr, st |-> [st EXCEPT !.esr = 0]]

\* A computeSTB whose summary bit also answers to bit 6 of SRE.
StatusRegister_computeSTB_feedback(st, errorQueueNotEmpty, messageAvailable) ==
    LET s1 == IF errorQueueNotEmpty THEN BitOr1(0, 2) ELSE 0
        s2 == IF messageAvailable THEN BitOr1(s1, 4) ELSE s1
        s3 == IF BitAnd(st.esr, st.ese) # 0 THEN BitOr1(s2, 5) ELSE s2
    IN  IF BitAnd(BitOr1(s3, 6), st.sre) # 0 THEN BitOr1(s3, 6) ELSE s3

StatusRegister_computeSTB(st, errorQueueNotEmpty, messageAvailable) ==
    LET s1 == IF errorQueueNotEmpty THEN BitOr1(0, 2) ELSE 0
        s2 == IF messageAvailable THEN BitOr1(s1, 4) ELSE s1
        s3 == IF BitAnd(st.esr, st.ese) # 0 THEN BitOr1(s2, 5) ELSE s2
    IN  IF BitAnd(s3, st.sre) # 0 THEN BitOr1(s3, 6) ELSE s3

StatusRegister_clearForCLS(st) == [st EXCEPT !.esr = 0]

(***************************************************************************)
(* Context (context.cpp, context.h).  A std::string that may carry block   *)
(* bytes is a record: the literal text followed by the raw bytes.  The     *)
(* output callbacks are the collecting callbacks of the tests: textOut and *)
(* binOut hold what they were handed.                                      *)
(***************************************************************************)
Lit(s) == [lit |-> s, raw |-> <<>>]
Raw(b) == [lit |-> "", raw |-> b]

Context_new(errorQueueSize) ==
    [errorQueue |-> ErrorQueue_new(errorQueueSize),
     status |-> StatusRegister_new,
     transientErrorCode |-> 0,
     transientErrorMessage |-> "",
     isQuery |-> FALSE,
     params |-> <<>>,
     nodeParams |-> <<>>,
     outputCallback |-> FALSE,
     binaryOutputCallback |-> FALSE,
     responses |-> <<>>,
     lastResponseIndefinite |-> FALSE,
     textOut |-> <<>>,
     binOut |-> <<>>]

Context_hasPendingResponse(c) == c.responses # <<>>

Context_lastResponseWasIndefinite(c) == c.lastResponseIndefinite

\* A Context whose transient-error slot always reads as empty.
Context_hasTransientError_never(c) == FALSE

Context_hasTransientError(c) == c.transientErrorCode # 0

Context_enqueueTextResponse(c, s, indefinite) ==
    IF ~c.outputCallback /\ ~c.binaryOutputCallback
    THEN [c EXCEPT !.responses = Append(@, [type |-> "Text", text |-> s, bin |-> <<>>,
                                            indefinite |-> indefinite]),
                   !.lastResponseIndefinite = indefinite]
    ELSE c

Context_enqueueBinaryResponse(c, b, indefinite) ==
    IF ~c.outputCallback /\ ~c.binaryOutputCallback
    THEN [c EXCEPT !.responses = Append(@, [type |-> "Binary", text |-> Lit(""), bin |-> b,
                                            indefinite |-> indefinite]),
                   !.lastResponseIndefinite = indefinite]
    ELSE c

\* result(const std::string&)
Context_result(c, s) ==
    LET c1 == IF c.outputCallback THEN [c EXCEPT !.textOut = Append(@, s)] ELSE c
    IN  Context_enqueueTextResponse(c1, s, FALSE)

\* result(int32_t): std::to_string
Context_resultInt(c, v) == Context_result(c, Lit(ToString(v)))

\* The decimal digits of len as character codes.
RECURSIVE DecDigits(_)
DecDigits(n) == IF n < 10 THEN <<48 + n>> ELSE DecDigits(n \div 10) \o <<48 + (n % 10)>>

Context_makeBlockHeader(len) ==
    LET lenStr == DecDigits(len)
    IN  <<35, 48 + Len(lenStr)>> \o lenStr

\* A resultBlock that asks for the text callback before the binary one.
Context_resultBlock_textFirst(c, data) ==
    LET hdr == Context_makeBlockHeader(Len(data))
    IN  IF c.outputCallback
        THEN [c EXCEPT !.textOut = Append(@, Raw(hdr \o data))]
        ELSE IF c.binaryOutputCallback
        THEN [c EXCEPT !.binOut = IF Len(data) > 0 THEN Append(Append(@, hdr), data)
                                  ELSE Append(@, hdr)]
        ELSE Context_enqueueBinaryResponse(c, hdr \o data, FALSE)

Context_resultBlock(c, data) ==
    LET hdr == Context_makeBlockHeader(Len(data))
    IN  IF c.binaryOutputCallback
        THEN [c EXCEPT !.binOut = IF Len(data) > 0 THEN Append(Append(@, hdr), data)
                                  ELSE Append(@, hdr)]
        ELSE IF c.outputCallback
        THEN [c EXCEPT !.textOut = Append(@, Raw(hdr \o data))]
        ELSE Context_enqueueBinaryResponse(c, hdr \o data, FALSE)

Context_resultIndefiniteBlock(c, data) ==
    IF c.binaryOutputCallback
    THEN [c EXCEPT !.binOut = (IF data # <<>> THEN Append(Append(@, <<35, 48>>), data)
                               ELSE Append(@, <<35, 48>>)) \o << <<10>> >>]
    ELSE IF c.outputCallback
    THEN [c EXCEPT !.textOut = Append(@, Raw(<<35, 48>> \o data \o <<10>>))]
    ELSE Context_enqueueBinaryResponse(c, <<35, 48>> \o data \o <<10>>, TRUE)

\* A clearResponses that leaves the buffer as it is.
Context_clearResponses_keep(c) == c

Context_clearResponses(c) ==
    [c EXCEPT !.responses = <<>>, !.lastResponseIndefinite = FALSE]

Context_pushError(c, code, message) ==
    [c EXCEPT !.transientErrorCode = code,
              !.transientErrorMessage = message,
              !.status = StatusRegister_setErrorByCode(@, code),
              !.errorQueue = ErrorQueue_push(@, ErrorEntry(code, message))]

Context_pushStandardError(c, code) ==
    Context_pushError(c, code, getStandardMessage(code))

Context_pushStandardErrorWithInfo(c, code, info) ==
    Context_pushError(c, code,
        IF info # "" THEN getStandardMessage(code) \o "; " \o info
        ELSE getStandardMessage(code))

\* A popTextResponse that reports nothing on an empty buffer.
Context_popTextResponse_silent(c) ==
    IF c.responses = <<>>
    THEN [value |-> Lit(""), c |-> c]
    ELSE LET it == Head(c.responses)
             rest == Tail(c.responses)
             c1 == [c EXCEPT !.responses = rest,
                             !.lastResponseIndefinite = IF rest = <<>> THEN FALSE ELSE @]
         IN  [value |-> IF it.type = "Text" THEN it.text ELSE Raw(it.bin), c |-> c1]

\* popTextResponse returns the text and the context left behind.
Context_popTextResponse(c) ==
    IF c.responses = <<>>
    THEN [value |-> Lit(""), c |-> Context_pushStandardError(c, QUERY_UNTERMINATED)]
    ELSE LET it == Head(c.responses)
             rest == Tail(c.responses)
             c1 == [c EXCEPT !.responses = rest,
                             !.lastResponseIndefinite = IF rest = <<>> THEN FALSE ELSE @]
         IN  [value |-> IF it.type = "Text" THEN it.text ELSE Raw(it.bin), c |-> c1]

\* A popBinaryResponse that keeps the indefinite mark of the item it hands out
\* and reports -440 on an empty buffer while the mark is set.
Context_popBinaryResponse_indef(c) ==
    IF c.responses = <<>>
    THEN [value |-> Lit(""),
          c |-> Context_pushStandardError(c, IF c.lastResponseIndefinite
                                             THEN QUERY_UNTERMINATED_INDEF
                                             ELSE QUERY_UNTERMINATED)]
    ELSE LET it == Head(c.responses)
             c1 == [c EXCEPT !.responses = Tail(c.responses),
                             !.lastResponseIndefinite = it.indefinite]
         IN  [value |-> IF it.type = "Binary" THEN Raw(it.bin) ELSE it.text, c |-> c1]

\* popBinaryResponse: a text item is handed out as its bytes.
Context_popBinaryResponse(c) ==
    IF c.responses = <<>>
    THEN [value |-> Lit(""), c |-> Context_pushStandardError(c, QUERY_UNTERMINATED)]
    ELSE LET it == Head(c.responses)
             rest == Tail(c.responses)
             c1 == [c EXCEPT !.responses = rest,
                             !.lastResponseIndefinite = IF rest = <<>> THEN FALSE ELSE @]
         IN  [value |-> IF it.type = "Binary" THEN Raw(it.bin) ELSE it.text, c |-> c1]

Context_clearTransientError(c) ==
    [c EXCEPT !.transientErrorCode = 0, !.transientErrorMessage = ""]

Context_resetCommandState(c) ==
    Context_clearTransientError([c EXCEPT !.params = <<>>, !.nodeParams = <<>>,
                                          !.isQuery = FALSE])

\* A clearStatus that leaves the error queue as it is.
Context_clearStatus_keepsQueue(c) ==
    Context_clearTransientError(
        [Context_clearResponses(c) EXCEPT !.status = StatusRegister_clearForCLS(@)])

Context_clearStatus(c) ==
    Context_clearTransientError(
        [Context_clearResponses([c EXCEPT !.errorQueue = ErrorQueue_clear(@)])
            EXCEPT !.status = StatusRegister_clearForCLS(@)])

Context_computeSTB(c) ==
    LET mav == (~c.outputCallback /\ ~c.binaryOutputCallback) /\ c.responses # <<>>
    IN  StatusRegister_computeSTB(c.status, ~ErrorQueue_empty(c.errorQueue), mav)

(***************************************************************************)
(* Characters and strings (types.h).  The characters of the model are the  *)
(* ones listed in AsciiOrder, in ASCII order; CharAt is 0-based like the   *)
(* code's indices and yields "" past the end, where Lexer::peek yields 0.  *)
(***************************************************************************)
\* The printable ASCII characters in order: codes 32 to 95 and 97 to 126.
PrintableLow == " !\"#$%&'()*+,-./0123456789:;<=>?@ABCDEFGHIJKLMNOPQRSTUVWXYZ[\\]^_"
PrintableHigh == "abcdefghijklmnopqrstuvwxyz{|}~"

AsciiOrder == "\t\n\r" \o PrintableLow \o PrintableHigh

Digits == "0123456789"
UpperCase == "ABCDEFGHIJKLMNOPQRSTUVWXYZ"
LowerCase == "abcdefghijklmnopqrstuvwxyz"

CharAt(s, i) == IF i >= 0 /\ i < Len(s) THEN SubSeq(s, i + 1, i + 1) ELSE ""

\* 1-based place of character c in s, 0 when absent (std::string::find + 1).
RECURSIVE IndexFrom(_, _, _)
IndexFrom(c, s, i) ==
    IF i > Len(s) THEN 0
    ELSE IF SubSeq(s, i, i) = c THEN i
    ELSE IndexFrom(c, s, i + 1)

IndexIn(c, s) == IndexFrom(c, s, 1)

Substr(s, start, count) == SubSeq(s, start + 1, start + count)

isDigit(c) == c # "" /\ IndexIn(c, Digits) # 0
isAlpha(c) == c # "" /\ (IndexIn(c, UpperCase) # 0 \/ IndexIn(c, LowerCase) # 0)
isAlnum(c) == isAlpha(c) \/ isDigit(c)

\* The characters of the model, each with its place in ASCII order and
\* with what std::toupper makes of it.
Characters == {SubSeq(AsciiOrder, i, i) : i \in 1..Len(AsciiOrder)}

AsciiCode == [c \in Characters |-> IndexIn(c, AsciiOrder)]

UpperOfAt(c, k) == IF k # 0 THEN SubSeq(UpperCase, k, k) ELSE c

UpperOf == [c \in Characters |-> UpperOfAt(c, IndexIn(c, LowerCase))]

RECURSIVE toUpper(_)
toUpper(s) ==
    IF s = "" THEN "" ELSE UpperOf[SubSeq(s, 1, 1)] \o toUpper(SubSeq(s, 2, Len(s)))

\* std::string operator< : byte-wise lexicographic order.
RECURSIVE StringLess(_, _)
StringLess(a, b) ==
    IF b = "" THEN FALSE
    ELSE IF a = "" THEN TRUE
    ELSE IF SubSeq(a, 1, 1) # SubSeq(b, 1, 1)
    THEN AsciiCode[SubSeq(a, 1, 1)] < AsciiCode[SubSeq(b, 1, 1)]
    ELSE StringLess(SubSeq(a, 2, Len(a)), SubSeq(b, 2, Len(b)))

\* std::stoll / std::stoi of a string of decimal digits.
RECURSIVE DecValue(_)
DecValue(s) ==
    IF s = "" THEN 0
    ELSE DecValue(SubSeq(s, 1, Len(s) - 1)) * 10 + (IndexIn(SubSeq(s, Len(s), Len(s)), Digits) - 1)

INT32_MAX == 2147483647

\* The characters of a string.
CharsOf(str) == {SubSeq(str, k, k) : k \in 1..Len(str)}

\* Number of characters of s from position i on that are among chars, up to
\* the first that is not; counted sixteen at a time where sixteen in a row
\* are.
RECURSIVE RunLength(_, _, _)
RunLength(s, i, chars) ==
    IF \A j \in 0..15 : CharAt(s, i + j) \in chars THEN 16 + RunLength(s, i + 16, chars)
    ELSE IF CharAt(s, i) \in chars THEN 1 + RunLength(s, i + 1, chars)
    ELSE 0

\* Number of digits of s from position i on.
DigitRun(s, i) == RunLength(s, i, CharsOf(Digits))

\* s without its leading zeros.
StripZeros(s) == SubSeq(s, RunLength(s, 0, {"0"}) + 1, Len(s))

\* The first n characters of s, filled up with zeros.
RECURSIVE PadZeros(_, _)
PadZeros(s, n) == IF Len(s) >= n THEN SubSeq(s, 1, n) ELSE PadZeros(s \o "0", n)

(***************************************************************************)
(* Double arithmetic.  A natural number of any size is the sequence of its *)
(* base-2^15 digits, lowest first, without leading zeros; a double is a    *)
(* sign and m * 2^e with m below 2^53, rounded to nearest, ties to even,   *)
(* as the conversions and products of the code are.  The operations over   *)
(* the digits halve their range instead of stepping through it, and work   *)
(* out the half a carry comes from before the half it goes to.             *)
(***************************************************************************)
BigBase == 2 ^ 15
BigBits == CHOOSE n \in 1..30 : 2 ^ n = BigBase

BigTrim(a) ==
    IF \A i \in 1..Len(a) : a[i] = 0 THEN <<>>
    ELSE SubSeq(a, 1, CHOOSE i \in 1..Len(a) :
                          a[i] # 0 /\ \A j \in (i + 1)..Len(a) : a[j] = 0)

BigZeros(n) == [i \in 1..n |-> 0]

\* The digits r.d with the carry r.c on top.
BigCarried(r) == BigTrim(Append(r.d, r.c))

\* The digits lo..hi of a * k + carry and the carry out, for k below BigBase.
RECURSIVE BigMulSmallRange(_, _, _, _, _)
BigMulSmallRange(a, k, lo, hi, carry) ==
    IF lo > hi THEN [d |-> <<>>, c |-> carry]
    ELSE IF lo = hi
    THEN [d |-> <<(a[lo] * k + carry) % BigBase>>, c |-> (a[lo] * k + carry) \div BigBase]
    ELSE LET mid == (lo + hi) \div 2
             l == BigMulSmallRange(a, k, lo, mid, carry)
             h == BigMulSmallRange(a, k, mid + 1, hi, l.c)
         IN  IF l.c < 0 THEN l ELSE [d |-> l.d \o h.d, c |-> h.c]

BigMulSmall(a, k) == BigCarried(BigMulSmallRange(a, k, 1, Len(a), 0))

\* The digits hi..lo of a divided by k, r being the remainder handed down,
\* for k up to 10^4.
RECURSIVE BigDivSmallRange(_, _, _, _, _)
BigDivSmallRange(a, k, lo, hi, r) ==
    IF lo > hi THEN [q |-> <<>>, r |-> r]
    ELSE IF lo = hi
    THEN [q |-> <<(r * BigBase + a[lo]) \div k>>, r |-> (r * BigBase + a[lo]) % k]
    ELSE LET mid == (lo + hi) \div 2
             h == BigDivSmallRange(a, k, mid + 1, hi, r)
             l == BigDivSmallRange(a, k, lo, mid, h.r)
         IN  IF h.r < 0 THEN h ELSE [q |-> l.q \o h.q, r |-> l.r]

BigQuotient(d) == [q |-> BigTrim(d.q), r |-> d.r]

BigDivSmall(a, k) == BigQuotient(BigDivSmallRange(a, k, 1, Len(a), 0))

BigDigit(a, i) == IF i <= Len(a) THEN a[i] ELSE 0

RECURSIVE BigAddRange(_, _, _, _, _)
BigAddRange(a, b, lo, hi, carry) ==
    IF lo > hi THEN [d |-> <<>>, c |-> carry]
    ELSE IF lo = hi
    THEN [d |-> <<(BigDigit(a, lo) + BigDigit(b, lo) + carry) % BigBase>>,
          c |-> (BigDigit(a, lo) + BigDigit(b, lo) + carry) \div BigBase]
    ELSE LET mid == (lo + hi) \div 2
             l == BigAddRange(a, b, lo, mid, carry)
             h == BigAddRange(a, b, mid + 1, hi, l.c)
         IN  IF l.c < 0 THEN l ELSE [d |-> l.d \o h.d, c |-> h.c]

BigAdd(a, b) ==
    BigCarried(BigAddRange(a, b, 1, IF Len(a) > Len(b) THEN Len(a) ELSE Len(b), 0))

\* a times the digits lo..hi of b.
RECURSIVE BigMulRange(_, _, _, _)
BigMulRange(a, b, lo, hi) ==
    IF lo > hi THEN <<>>
    ELSE IF lo = hi THEN BigMulSmall(a, b[lo])
    ELSE BigAdd(BigMulRange(a, b, lo, (lo + hi) \div 2),
                BigZeros((lo + hi) \div 2 + 1 - lo)
                    \o BigMulRange(a, b, (lo + hi) \div 2 + 1, hi))

BigMul(a, b) == IF a = <<>> \/ b = <<>> THEN <<>> ELSE BigMulRange(a, b, 1, Len(b))

BigLess(a, b) ==
    IF Len(a) # Len(b) THEN Len(a) < Len(b)
    ELSE IF a = b THEN FALSE
    ELSE LET i == CHOOSE k \in 1..Len(a) :
                      a[k] # b[k] /\ \A j \in (k + 1)..Len(a) : a[j] = b[j]
         IN  a[i] < b[i]

RECURSIVE BigPow10(_)
BigPow10(n) ==
    IF n <= 4 THEN <<10 ^ n>>
    ELSE BigMul(BigPow10(n \div 2), BigPow10(n - n \div 2))

\* The number a string of decimal digits stands for.
RECURSIVE BigFromDigits(_)
BigFromDigits(s) ==
    IF Len(s) <= 4 THEN BigTrim(<<DecValue(s)>>)
    ELSE BigAdd(BigMul(BigFromDigits(SubSeq(s, 1, Len(s) - Len(s) \div 2)),
                       BigPow10(Len(s) \div 2)),
                BigFromDigits(SubSeq(s, Len(s) - Len(s) \div 2 + 1, Len(s))))

\* The number of bits of a.
BigBitLength(a) ==
    IF a = <<>> THEN 0
    ELSE BigBits * (Len(a) - 1)
         + (CHOOSE n \in 1..BigBits : 2 ^ (n - 1) <= a[Len(a)] /\ a[Len(a)] < 2 ^ n)

BigOdd(a) == a # <<>> /\ a[1] % 2 = 1

BigShiftLeft(a, n) ==
    IF a = <<>> THEN <<>> ELSE BigZeros(n \div BigBits) \o BigMulSmall(a, 2 ^ (n % BigBits))

\* The quotient d.q; sticky tells that its remainder or a lower digit is not 0.
BigShifted(d, low) == [q |-> d.q, sticky |-> d.r # 0 \/ low]

\* floor(a / 2^n) and whether a set bit was dropped.
BigShiftRight(a, n) ==
    BigShifted(BigDivSmall(SubSeq(a, n \div BigBits + 1, Len(a)), 2 ^ (n % BigBits)),
               \E i \in 1..(n \div BigBits) : BigDigit(a, i) # 0)

\* floor(a / 10^n) and whether a remainder was dropped.
RECURSIVE BigDivPow10(_, _)
BigDivPow10(a, n) ==
    IF n <= 4 THEN BigShifted(BigDivSmall(a, 10 ^ n), FALSE)
    ELSE LET first == BigDivPow10(a, n \div 2)
             second == BigDivPow10(first.q, n - n \div 2)
         IN  IF first.q = <<>> THEN first
             ELSE [q |-> second.q, sticky |-> first.sticky \/ second.sticky]

\* a - b, for a not below b.
RECURSIVE BigSubFrom(_, _, _, _)
BigSubFrom(a, b, i, borrow) ==
    IF i > Len(a) THEN <<>>
    ELSE <<(a[i] - BigDigit(b, i) - borrow + BigBase) % BigBase>>
         \o BigSubFrom(a, b, i + 1, IF a[i] - BigDigit(b, i) - borrow < 0 THEN 1 ELSE 0)

BigSub(a, b) == BigTrim(BigSubFrom(a, b, 1, 0))

\* 2^52, 2^53, 2^63 and 2^64.
Big2p52 == <<0, 0, 0, 128>>
Big2p53 == <<0, 0, 0, 256>>
Big2p63 == <<0, 0, 0, 0, 8>>
Big2p64 == <<0, 0, 0, 0, 16>>

\* m * 2^e with m of 53 bits, or 2^53 after a carry.
DoubleNormal(m, e) == IF m = Big2p53 THEN [m |-> Big2p52, e |-> e + 1] ELSE [m |-> m, e |-> e]

\* d.q are the 53 bits kept and d.r the bit below them; rest tells that a
\* bit further below is set.
DoubleRoundHalf(d, rest, e) ==
    DoubleNormal(IF d.r = 1 /\ (rest \/ BigOdd(d.q)) THEN BigAdd(d.q, <<1>>) ELSE d.q, e)

\* s.q are the leading 54 bits.
DoubleRoundBits(s, sticky, e) == DoubleRoundHalf(BigDivSmall(s.q, 2), s.sticky \/ sticky, e)

\* (m + a fraction) * 2^e with its drop lowest bits rounded away.
DoubleRoundAway(m, e, sticky, drop) ==
    IF drop <= 0 THEN [m |-> m, e |-> e]
    ELSE DoubleRoundBits(BigShiftRight(m, drop - 1), sticky, e + drop)

\* (m + a fraction) * 2^e rounded to 53 bits, and to fewer where the
\* double is subnormal, its lowest bit being 2^-1074; sticky tells that the
\* fraction is not 0, and m has 54 bits or more then.
DoubleRound(m, e, sticky) ==
    DoubleRoundAway(m, e, sticky,
                    IF BigBitLength(m) - 53 >= -1074 - e THEN BigBitLength(m) - 53
                    ELSE -1074 - e)

\* a * 10^n as m, e and sticky.
DoubleProduct(a, n) == [q |-> BigMul(a, BigPow10(n)), e |-> 0, sticky |-> FALSE]

\* floor(a * 2^s / 10^n) as m, e and sticky.
DoubleQuotientBy(d, s) == [q |-> d.q, e |-> 0 - s, sticky |-> d.sticky]

DoubleQuotient(a, n, s) == DoubleQuotientBy(BigDivPow10(BigShiftLeft(a, s), n), s)

DoubleRoundParts(r) == DoubleRound(r.q, r.e, r.sticky)

\* The double nearest to a * 10^exp10: below 1 the quotient is taken with
\* 55 bits or more, 10^n having at most 10 * n \div 3 + 1 bits.
DoubleFromBig(a, exp10) ==
    IF a = <<>> THEN [m |-> <<>>, e |-> 0]
    ELSE DoubleRoundParts(
             IF exp10 >= 0 THEN DoubleProduct(a, exp10)
             ELSE IF 56 + (10 * (0 - exp10)) \div 3 > BigBitLength(a)
             THEN DoubleQuotient(a, 0 - exp10,
                                 56 + (10 * (0 - exp10)) \div 3 - BigBitLength(a))
             ELSE DoubleQuotient(a, 0 - exp10, 0))

\* The double nearest to digits * 10^exp10 (strtod, and the compiler's
\* conversion of a literal).
DoubleFromDecimal(digits, exp10) == DoubleFromBig(BigFromDigits(digits), exp10)

\* 2^54 - 1.
Big2p54m1 == <<32767, 32767, 32767, 511>>

\* 2^1024 - 2^970.
DBL_OVERFLOW == BigShiftLeft(Big2p54m1, 970)

\* a * 10^x * 2^n as a whole number q and whether a fraction was cut off.
StoDScaled(a, x, n) ==
    IF x >= 0 THEN DoubleProduct(BigShiftLeft(a, n), x) ELSE DoubleQuotient(a, 0 - x, n)

\* The range of a double.  A value rounds to infinity from 2^1024 - 2^970
\* on, r being the value.  It is tiny below 2^-1022 - 2^-1076, r being the
\* value * 2^1076, and a tiny value is in range when it is a multiple of
\* 2^-1074.
StoDInRange(r, tiny) ==
    IF ~tiny THEN BigLess(r.q, DBL_OVERFLOW)
    ELSE \/ ~BigLess(r.q, Big2p54m1)
         \/ ~r.sticky /\ BigDigit(r.q, 1) % 4 = 0

\* std::stod of a text made of a sign, digits, a point and an exponent: the
\* longest prefix that is a number is converted.  It throws invalid_argument
\* when the mantissa has no digit and out_of_range when strtod reports
\* ERANGE: on overflow, and on a nonzero value that is tiny and not a double
\* itself (strtod converts the decimal expansion of a subnormal double
\* without error); ok is FALSE then.  The value is digits * 10^exp10,
\* negated if neg.  An exponent of more than six digits decides the range by
\* itself: a mantissa that made up for it would have some 700000 digits.
\* The conversion goes through the parts of the text in turn: the range, the
\* value of the exponent, the exponent, the fraction, the integer part, the
\* sign.
StoDRange(s, mant, sig, n1, n2, huge, expNeg, exp) ==
    LET e10 == n1 - 1 - (Len(mant) - Len(sig)) + exp
        res(ok) == [ok |-> ok, neg |-> CharAt(s, 0) = "-", digits |-> mant, exp10 |-> exp - n2]
    IN  IF n1 + n2 = 0 THEN res(FALSE)
        ELSE IF sig = "" THEN res(TRUE)
        ELSE IF huge \/ e10 > 308 \/ e10 < -324 THEN res(FALSE)
        ELSE IF e10 > -308 /\ e10 < 308 THEN res(TRUE)
        ELSE res(StoDInRange(StoDScaled(BigFromDigits(sig), exp - n2,
                                        IF e10 > 0 THEN 0 ELSE 1076), e10 < 0))

StoDValue(s, mant, n1, n2, expNeg, expDigits) ==
    StoDRange(s, mant, StripZeros(mant), n1, n2, Len(expDigits) > 6, expNeg,
              IF Len(expDigits) > 6 THEN 0
              ELSE IF expNeg THEN 0 - DecValue(expDigits) ELSE DecValue(expDigits))

StoDExp(s, p1, n1, n2, p3) ==
    StoDValue(s, Substr(s, p1, n1) \o Substr(s, p1 + n1 + 1, n2), n1, n2,
              CharAt(s, p3 + 1) = "-",
              IF CharAt(s, p3) \notin {"e", "E"} THEN ""
              ELSE IF CharAt(s, p3 + 1) \in {"+", "-"}
              THEN StripZeros(Substr(s, p3 + 2, DigitRun(s, p3 + 2)))
              ELSE StripZeros(Substr(s, p3 + 1, DigitRun(s, p3 + 1))))

StoDFrac(s, p1, n1, n2) ==
    StoDExp(s, p1, n1, n2, IF CharAt(s, p1 + n1) = "." THEN p1 + n1 + 1 + n2 ELSE p1 + n1)

StoDInt(s, p1, n1) ==
    StoDFrac(s, p1, n1, IF CharAt(s, p1 + n1) = "." THEN DigitRun(s, p1 + n1 + 1) ELSE 0)

StoDSign(s, p1) == StoDInt(s, p1, DigitRun(s, p1))

StoD(s) == StoDSign(s, IF CharAt(s, 0) \in {"+", "-"} THEN 1 ELSE 0)

\* The double that the parts sd of a text convert to.
DoubleOfParts(sd) == DoubleFromDecimal(sd.digits, sd.exp10)

\* The double text converts to.
DoubleOf(text) == DoubleOfParts(StoD(text))

\* x * y for doubles x and y.
DoubleMul(x, y) == DoubleRound(BigMul(x.m, y.m), x.e + y.e, FALSE)

\* What stands for a value the language leaves undefined.
Undefined == "undefined"

\* The value of a digit string in a base of at most 16.
RECURSIVE RadixValue(_, _)
RadixValue(s, base) ==
    IF s = "" THEN 0
    ELSE RadixValue(SubSeq(s, 1, Len(s) - 1), base) * base
         + ((IndexIn(toUpper(SubSeq(s, Len(s), Len(s))), "0123456789ABCDEF")) - 1)

\* The number a string of digits of a base up to 16 stands for.
RECURSIVE BigFromRadix(_, _)
BigFromRadix(s, base) ==
    IF Len(s) <= 3 THEN BigTrim(<<RadixValue(s, base)>>)
    ELSE LET h == Len(s) \div 2
             high == BigFromRadix(SubSeq(s, 1, Len(s) - h), base)
             unit == BigFromRadix(PadZeros("1", h + 1), base)
             low == BigFromRadix(SubSeq(s, Len(s) - h + 1, Len(s)), base)
         IN  IF high = <<>> THEN low ELSE BigAdd(BigMul(high, unit), low)

\* The decimal digits of a, none for 0.
RECURSIVE BigToDigits(_)
RECURSIVE BigToDigitsNext(_)
BigToDigits(a) == IF a = <<>> THEN "" ELSE BigToDigitsNext(BigDivSmall(a, 10))

BigToDigitsNext(d) == BigToDigits(d.q) \o SubSeq(Digits, d.r + 1, d.r + 1)

\* The decimal text of an integer of magnitude a.
IntegerText(neg, a) == IF a = <<>> THEN "0" ELSE (IF neg THEN "-" ELSE "") \o BigToDigits(a)

\* The magnitude of the double x truncated toward zero.
DoubleTruncate(x) ==
    IF x.e >= 0 THEN BigShiftLeft(x.m, x.e) ELSE BigShiftRight(x.m, 0 - x.e).q

\* The decimal text of the int64 of magnitude mag and sign neg; Undefined
\* outside int64.
BigToInt64(neg, mag) ==
    IF ~BigLess(mag, Big2p63) /\ ~(neg /\ mag = Big2p63) THEN Undefined
    ELSE IntegerText(neg, mag)

\* static_cast<int64_t> of the double m * 2^e of sign neg, as decimal text;
\* Undefined for a value outside int64.
DoubleToInt64(neg, x) ==
    IF x.m = <<>> THEN "0"
    ELSE IF x.e > 63 THEN Undefined
    ELSE BigToInt64(neg, DoubleTruncate(x))

\* static_cast<int64_t> of the double that the parts sd of a text convert to.
DecimalToInt64(sd) == DoubleToInt64(sd.neg, DoubleOfParts(sd))

INT32_MAX_DIGITS == "2147483647"

\* Whether the magnitude digits, without leading zeros, is beyond limit.
DigitsBeyond(digits, limit) ==
    Len(digits) > Len(limit) \/ (Len(digits) = Len(limit) /\ StringLess(limit, digits))

\* The int64 of sign neg and magnitude digits narrowed to the int32 range.
Int32Clamp(neg, digits) ==
    IF DigitsBeyond(digits, INT32_MAX_DIGITS)
    THEN (IF neg THEN -INT32_MAX - 1 ELSE INT32_MAX)
    ELSE IF neg THEN 0 - DecValue(digits) ELSE DecValue(digits)

\* The int64 of decimal text v narrowed to the int32 range; undef is what
\* an undefined conversion yielded.
Int64ToInt32(v, undef) ==
    IF v = Undefined THEN undef
    ELSE Int32Clamp(CharAt(v, 0) = "-", IF CharAt(v, 0) = "-" THEN SubSeq(v, 2, Len(v)) ELSE v)

\* static_cast<int> of a double whose static_cast<int64_t> is v; undef is
\* what the conversion of a value outside int yields.
Int64ToInt(v, undef) ==
    IF v = Undefined THEN undef
    ELSE IF v = "-2147483648" THEN -INT32_MAX - 1
    ELSE IF DigitsBeyond(IF CharAt(v, 0) = "-" THEN SubSeq(v, 2, Len(v)) ELSE v, INT32_MAX_DIGITS)
    THEN undef
    ELSE Int64ToInt32(v, undef)

(***************************************************************************)
(* Lexer (lexer.cpp).  The lexer's state is its position pos_; peekToken   *)
(* is nextToken with the result cached, so both are the one function of    *)
(* the position below.  A token's numberValue is the decimal text of the   *)
(* number the double is converted from.  Bytes are the tab, the line ends  *)
(* and the printable ASCII characters.                                     *)
(***************************************************************************)
Token(type, value, position) ==
    [type |-> type, value |-> value, position |-> position, length |-> Len(value),
     baseName |-> "", numericSuffix |-> 0, hasNumericSuffix |-> FALSE,
     numberValue |-> "0", isInteger |-> TRUE,
     isNegative |-> FALSE, errorMessage |-> "",
     blockData |-> <<>>, isIndefinite |-> FALSE]

Token_makeEnd(pos) == Token("END_OF_INPUT", "", pos)

Token_makeError(message, pos) == [Token("ERROR", "", pos) EXCEPT !.errorMessage = message]

RECURSIVE Lexer_skipInlineWhitespace(_, _)
Lexer_skipInlineWhitespace(input, pos) ==
    IF CharAt(input, pos) \in {" ", "\t"}
    THEN Lexer_skipInlineWhitespace(input, pos + 1)
    ELSE pos

\* splitNumericSuffix: the trailing digits of an identifier, if letters precede them.
Lexer_splitNumericSuffix(identifier) ==
    LET n == Len(identifier)
        i == CHOOSE k \in 0..n :
                /\ \A j \in k..(n - 1) : isDigit(CharAt(identifier, j))
                /\ (k = 0 \/ ~isDigit(CharAt(identifier, k - 1)))
        val == DecValue(Substr(identifier, i, n - i))
    IN  IF i < n /\ i > 0 /\ val <= INT32_MAX
        THEN [baseName |-> Substr(identifier, 0, i), suffix |-> val, hasSuffix |-> TRUE]
        ELSE [baseName |-> identifier, suffix |-> 0, hasSuffix |-> FALSE]

RECURSIVE IdentRun(_, _)
IdentRun(s, i) ==
    IF isAlnum(CharAt(s, i)) \/ CharAt(s, i) = "_" THEN 1 + IdentRun(s, i + 1) ELSE 0

\* The literal limit of readIdentifier.
IDENTIFIER_LIMIT == 255

Lexer_readIdentifier(input, pos) ==
    LET n == IdentRun(input, pos)
        value == Substr(input, pos, n)
        sp == Lexer_splitNumericSuffix(value)
    IN  IF n > IDENTIFIER_LIMIT
        THEN [tok |-> Token_makeError("Identifier too long (> 255)", pos + IDENTIFIER_LIMIT + 1),
              pos |-> pos + IDENTIFIER_LIMIT + 1]
        ELSE [tok |-> [Token("IDENTIFIER", value, pos) EXCEPT
                          !.baseName = sp.baseName,
                          !.numericSuffix = sp.suffix,
                          !.hasNumericSuffix = sp.hasSuffix],
              pos |-> pos + n]

\* readNumber: sign, integer digits, fraction, exponent.  p1..p4 are the
\* positions after the sign, the integer digits, the fraction and the
\* exponent's sign.
Lexer_readNumberEnd(input, pos, p1, p2, p3, p4) ==
    LET hasDot == CharAt(input, p2) = "."
        hasExp == CharAt(input, p3) \in {"e", "E"}
        nExp == IF hasExp THEN DigitRun(input, p4) ELSE 0
        isNegative == CharAt(input, pos) = "-"
    IN  IF hasExp /\ nExp = 0
        THEN [tok |-> Token_makeError("Expected digits after exponent", p4), pos |-> p4]
        ELSE IF p2 = p1 /\ ~hasDot /\ ~hasExp
        THEN [tok |-> Token_makeError("Invalid number format", p4), pos |-> p4]
        ELSE IF ~StoD(Substr(input, pos, p4 + nExp - pos)).ok
        THEN [tok |-> Token_makeError("Number parsing failed", p4 + nExp), pos |-> p4 + nExp]
        ELSE [tok |-> [Token("NUMBER", Substr(input, pos, p4 + nExp - pos), pos) EXCEPT
                          !.numberValue = Substr(input, pos, p4 + nExp - pos),
                          !.isInteger = ~(hasDot \/ hasExp),
                          !.isNegative = isNegative],
              pos |-> p4 + nExp]

Lexer_readNumberExp(input, pos, p1, p2, p3) ==
    Lexer_readNumberEnd(input, pos, p1, p2, p3,
        IF CharAt(input, p3) \in {"e", "E"}
        THEN (IF CharAt(input, p3 + 1) \in {"+", "-"} THEN p3 + 2 ELSE p3 + 1)
        ELSE p3)

Lexer_readNumberFrac(input, pos, p1, p2) ==
    Lexer_readNumberExp(input, pos, p1, p2,
        IF CharAt(input, p2) = "." THEN p2 + 1 + DigitRun(input, p2 + 1) ELSE p2)

Lexer_readNumberInt(input, pos, p1) ==
    Lexer_readNumberFrac(input, pos, p1, p1 + DigitRun(input, p1))

Lexer_readNumber(input, pos) ==
    Lexer_readNumberInt(input, pos, IF CharAt(input, pos) \in {"+", "-"} THEN pos + 1 ELSE pos)

\* The byte of a character and the character of a byte.
ByteOf(c) ==
    IF c = "\t" THEN 9 ELSE IF c = "\n" THEN 10 ELSE IF c = "\r" THEN 13
    ELSE IF IndexIn(c, PrintableLow) # 0 THEN 31 + IndexIn(c, PrintableLow)
    ELSE 96 + IndexIn(c, PrintableHigh)

CharOf(b) ==
    IF b = 9 THEN "\t" ELSE IF b = 10 THEN "\n" ELSE IF b = 13 THEN "\r"
    ELSE IF b < 96 THEN SubSeq(PrintableLow, b - 31, b - 31)
    ELSE SubSeq(PrintableHigh, b - 96, b - 96)

BytesOf(s) == [i \in 1..Len(s) |-> ByteOf(SubSeq(s, i, i))]

RECURSIVE StringOf(_)
StringOf(bytes) == IF bytes = <<>> THEN "" ELSE CharOf(Head(bytes)) \o StringOf(Tail(bytes))

\* Number of leading characters of s from position i on that are in digits.
RadixRun(s, i, digits) == RunLength(s, i, CharsOf(digits))

\* The int64 whose 64 bits are those of u, as decimal text.
Int64OfBits(u) ==
    IF BigLess(u, Big2p63) THEN IntegerText(FALSE, u)
    ELSE IntegerText(TRUE, BigSub(Big2p64, u))

\* value = (value << 1) | bit over the digits of readBinaryLiteral: the
\* last 64 of them are the bits of the int64 that results.  A shift into or
\* past the sign bit is left undefined before C++20, which defines it as
\* this one; the shift instruction of the build does the same.
Lexer_binaryValue(bits) ==
    Int64OfBits(BigFromRadix(IF Len(bits) > 64 THEN SubSeq(bits, Len(bits) - 63, Len(bits))
                             ELSE bits, 2))

\* readBinaryLiteral, readHexLiteral, readOctalLiteral: pos is the place of
\* '#'.  std::stoll throws on a hex or octal value outside int64.
Lexer_readRadixLiteral(input, pos, digits, base, prefix, what) ==
    LET n == RadixRun(input, pos + 2, digits)
        text == Substr(input, pos + 2, n)
        value == BigFromRadix(text, base)
    IN  IF n = 0
        THEN [tok |-> Token_makeError("Expected " \o what \o " digits after " \o prefix, pos + 2),
              pos |-> pos + 2]
        ELSE IF base # 2 /\ ~BigLess(value, Big2p63)
        THEN [tok |-> Token_makeError((IF base = 16 THEN "Hex" ELSE "Octal") \o " number overflow",
                                      pos + 2 + n),
              pos |-> pos + 2 + n]
        ELSE [tok |-> [Token("NUMBER", prefix \o text, pos) EXCEPT
                          !.numberValue = IF base = 2 THEN Lexer_binaryValue(text)
                                          ELSE IntegerText(FALSE, value),
                          !.isInteger = TRUE],
              pos |-> pos + 2 + n]

MAX_BLOCK_DATA_SIZE == 104857600

\* A readBlockData without the size limit.
Lexer_readBlockData_unlimited(input, pos) ==
    LET n == DecValue(CharAt(input, pos + 1))
        digits == DigitRun(input, pos + 2)
        have == IF digits < n THEN digits ELSE n
        p == pos + 2 + have
        dataLen == DecValue(Substr(input, pos + 2, n))
    IN  IF have < n
        THEN [tok |-> Token_makeError(
                          IF p >= Len(input) THEN "Unexpected end in block data length field"
                          ELSE "Expected digit in block data length field", p),
              pos |-> p]
        ELSE IF p + dataLen > Len(input)
        THEN [tok |-> Token_makeError("Block data truncated: expected " \o ToString(dataLen)
                                      \o " bytes, got " \o ToString(Len(input) - p), p),
              pos |-> p]
        ELSE [tok |-> [Token("BLOCK_DATA", "", pos) EXCEPT
                          !.blockData = BytesOf(Substr(input, p, dataLen)),
                          !.length = p + dataLen - pos],
              pos |-> p + dataLen]

\* readBlockData: pos is the place of '#', followed by a digit 1..9, that
\* many length digits and the data.
Lexer_readBlockData(input, pos) ==
    LET n == DecValue(CharAt(input, pos + 1))
        digits == DigitRun(input, pos + 2)
        have == IF digits < n THEN digits ELSE n
        p == pos + 2 + have
        dataLen == DecValue(Substr(input, pos + 2, n))
    IN  IF have < n
        THEN [tok |-> Token_makeError(
                          IF p >= Len(input) THEN "Unexpected end in block data length field"
                          ELSE "Expected digit in block data length field", p),
              pos |-> p]
        ELSE IF dataLen > MAX_BLOCK_DATA_SIZE
        THEN [tok |-> Token_makeError("Block data too large (exceeds MAX_BLOCK_DATA_SIZE)", p),
              pos |-> p]
        ELSE IF p + dataLen > Len(input)
        THEN [tok |-> Token_makeError("Block data truncated: expected " \o ToString(dataLen)
                                      \o " bytes, got " \o ToString(Len(input) - p), p),
              pos |-> p]
        ELSE [tok |-> [Token("BLOCK_DATA", "", pos) EXCEPT
                          !.blockData = BytesOf(Substr(input, p, dataLen)),
                          !.length = p + dataLen - pos],
              pos |-> p + dataLen]

\* Number of bytes from position i on before the default block terminator.
RECURSIVE UnterminatedRun(_, _)
UnterminatedRun(s, i) ==
    IF CharAt(s, i) \in {"", "\n", "\r"} THEN 0 ELSE 1 + UnterminatedRun(s, i + 1)

\* readIndefiniteBlock: the bytes after '#0' up to a terminator, which stays
\* in the input.
Lexer_readIndefiniteBlock(input, pos) ==
    LET n == UnterminatedRun(input, pos + 2)
    IN  [tok |-> [Token("BLOCK_DATA", "", pos) EXCEPT
                     !.blockData = BytesOf(Substr(input, pos + 2, n)),
                     !.isIndefinite = TRUE,
                     !.length = n + 2],
         pos |-> pos + 2 + n]

\* The loop of readString from position p on: the content read, the position
\* reached and whether the closing quote was found.  A doubled quote is one
\* quote of the content; a line end or the end of the input ends the loop
\* without a closing quote.
RECURSIVE Lexer_readStringLoop(_, _, _, _)
Lexer_readStringLoop(input, p, quote, content) ==
    LET c == CharAt(input, p)
    IN  IF p >= Len(input) THEN [content |-> content, pos |-> p, terminated |-> FALSE]
        ELSE IF c = quote
        THEN IF CharAt(input, p + 1) = quote
             THEN Lexer_readStringLoop(input, p + 2, quote, content \o quote)
             ELSE [content |-> content, pos |-> p + 1, terminated |-> TRUE]
        ELSE IF c \in {"\n", "\r"} THEN [content |-> content, pos |-> p, terminated |-> FALSE]
        ELSE Lexer_readStringLoop(input, p + 1, quote, content \o c)

\* readString: pos is the place of the opening quote; the token's length
\* counts the quotes.
Lexer_readString(input, pos, quote) ==
    LET r == Lexer_readStringLoop(input, pos + 1, quote, "")
    IN  IF ~r.terminated
        THEN [tok |-> Token_makeError("Unterminated string literal", r.pos), pos |-> r.pos]
        ELSE [tok |-> [Token("STRING", r.content, pos) EXCEPT !.length = r.pos - pos],
              pos |-> r.pos]

\* readHashPrefixed: pos is the place of '#'.
Lexer_readHashPrefixed(input, pos) ==
    LET next == CharAt(input, pos + 1)
    IN  IF next = ""
        THEN [tok |-> Token_makeError("Unexpected end after '#'", pos + 1), pos |-> pos + 1]
        ELSE IF next \in {"B", "b"}
        THEN Lexer_readRadixLiteral(input, pos, "01", 2, "#B", "binary")
        ELSE IF next \in {"H", "h"}
        THEN Lexer_readRadixLiteral(input, pos, "0123456789abcdefABCDEF", 16, "#H", "hex")
        ELSE IF next \in {"Q", "q"}
        THEN Lexer_readRadixLiteral(input, pos, "01234567", 8, "#Q", "octal")
        ELSE IF next = "0" THEN Lexer_readIndefiniteBlock(input, pos)
        ELSE IF isDigit(next) THEN Lexer_readBlockData(input, pos)
        ELSE [tok |-> Token("HASH", "#", pos), pos |-> pos + 1]

\* nextToken from position pos: the token and the position after it.
Lexer_nextToken(input, pos0) ==
    LET pos == Lexer_skipInlineWhitespace(input, pos0)
        c == CharAt(input, pos)
        next == CharAt(input, pos + 1)
        single(type) == [tok |-> Token(type, c, pos), pos |-> pos + 1]
    IN  IF pos >= Len(input) THEN [tok |-> Token_makeEnd(pos), pos |-> pos]
        ELSE IF c = ":" THEN single("COLON")
        ELSE IF c = ";" THEN single("SEMICOLON")
        ELSE IF c = "," THEN single("COMMA")
        ELSE IF c = "?" THEN single("QUESTION")
        ELSE IF c = "*" THEN single("ASTERISK")
        ELSE IF c = "(" THEN single("LPAREN")
        ELSE IF c = ")" THEN single("RPAREN")
        ELSE IF c = "@" THEN single("AT")
        ELSE IF c = "\n" THEN single("NEWLINE")
        ELSE IF c = "#" THEN Lexer_readHashPrefixed(input, pos)
        ELSE IF c \in {"\"", "'"} THEN Lexer_readString(input, pos, c)
        ELSE IF c \in {"+", "-"}
        THEN IF isDigit(next) \/ next = "." THEN Lexer_readNumber(input, pos)
             ELSE single("IDENTIFIER")
        ELSE IF c = "."
        THEN IF isDigit(next) THEN Lexer_readNumber(input, pos)
             ELSE [tok |-> Token_makeError("Unexpected character '.'", pos + 1), pos |-> pos + 1]
        ELSE IF isDigit(c) THEN Lexer_readNumber(input, pos)
        ELSE IF isAlpha(c) \/ c = "_" THEN Lexer_readIdentifier(input, pos)
        ELSE [tok |-> Token_makeError("Unexpected character '" \o c \o "'", pos + 1),
              pos |-> pos + 1]

Lexer_peekToken(input, pos) == Lexer_nextToken(input, pos).tok

(***************************************************************************)
(* Numeric keywords (keywords.cpp), units (units.cpp) and Parameter        *)
(* (parameter.cpp).  A floating value is kept as the decimal text it was   *)
(* converted from; the scaled value of a unit parameter is the product     *)
(* Parameter_scaledValue computes where the code reads it.                 *)
(***************************************************************************)
matchesPattern(input, shortName, longName) ==
    \/ input = shortName
    \/ input = longName
    \/ /\ Len(input) >= Len(shortName)
       /\ Len(input) <= Len(longName)
       /\ SubSeq(longName, 1, Len(input)) = input

parseNumericKeyword(str) ==
    LET upper == toUpper(str)
    IN  IF str = "" THEN "NONE"
        ELSE IF upper \in {"+INF", "+INFINITY"} THEN "INFINITY_POS"
        ELSE IF upper \in {"-INF", "-INFINITY"} THEN "INFINITY_NEG"
        ELSE IF matchesPattern(upper, "MIN", "MINIMUM") THEN "MINIMUM"
        ELSE IF matchesPattern(upper, "MAX", "MAXIMUM") THEN "MAXIMUM"
        ELSE IF matchesPattern(upper, "DEF", "DEFAULT") THEN "DEFAULT"
        ELSE IF matchesPattern(upper, "INF", "INFINITY") THEN "INFINITY_POS"
        ELSE IF matchesPattern(upper, "NINF", "NINFINITY") THEN "INFINITY_NEG"
        ELSE IF upper = "NAN" \/ matchesPattern(upper, "NOTA", "NOTANUMBER") THEN "NOT_A_NUMBER"
        ELSE IF upper = "UP" THEN "UP"
        ELSE IF upper = "DOWN" THEN "DOWN"
        ELSE "NONE"

\* keywordToDouble: the text of the double.
keywordToDouble(keyword) ==
    CASE keyword = "INFINITY_POS" -> "inf"
      [] keyword = "INFINITY_NEG" -> "-inf"
      [] keyword = "NOT_A_NUMBER" -> "nan"
      [] OTHER -> "0"

\* getMultiplier: the decimal exponent of the literal the code returns.
UnitParser_getExponent(prefix) ==
    CASE prefix = "FEMTO" -> -15
      [] prefix = "PICO" -> -12
      [] prefix = "NANO" -> -9
      [] prefix = "MICRO" -> -6
      [] prefix = "MILLI" -> -3
      [] prefix = "NONE" -> 0
      [] prefix = "KILO" -> 3
      [] prefix = "MEGA" -> 6
      [] prefix = "GIGA" -> 9
      [] prefix = "TERA" -> 12
      [] OTHER -> 0

\* getMultiplier: the double of the literal the code returns.
UnitParser_getMultiplier(prefix) == DoubleFromDecimal("1", UnitParser_getExponent(prefix))

UnitParser_parsePrefixChar(c) ==
    CASE c = "T" -> "TERA"
      [] c = "G" -> "GIGA"
      [] c = "M" -> "MEGA"
      [] c \in {"K", "k"} -> "KILO"
      [] c = "m" -> "MILLI"
      [] c \in {"u", "U"} -> "MICRO"
      [] c \in {"n", "N"} -> "NANO"
      [] c \in {"p", "P"} -> "PICO"
      [] c \in {"f", "F"} -> "FEMTO"
      [] OTHER -> "NONE"

UnitParser_parseBaseUnit(str) ==
    LET upper == toUpper(str)
    IN  CASE upper \in {"V", "VOLT", "VOLTS"} -> "VOLT"
          [] upper \in {"A", "AMP", "AMPERE", "AMPERES"} -> "AMPERE"
          [] upper \in {"W", "WATT", "WATTS"} -> "WATT"
          [] upper \in {"OHM", "OHMS"} -> "OHM"
          [] upper \in {"F", "FARAD", "FARADS"} -> "FARAD"
          [] upper \in {"H", "HENRY", "HENRYS", "HENRIES"} -> "HENRY"
          [] upper \in {"HZ", "HERTZ"} -> "HERTZ"
          [] upper \in {"S", "SEC", "SECOND", "SECONDS"} -> "SECOND"
          [] upper \in {"CEL", "CELSIUS"} -> "CELSIUS"
          [] upper \in {"K", "KELVIN"} -> "KELVIN"
          [] upper \in {"FAR", "FAHRENHEIT"} -> "FAHRENHEIT"
          [] upper \in {"DEG", "DEGREE", "DEGREES"} -> "DEGREE"
          [] upper \in {"RAD", "RADIAN", "RADIANS"} -> "RADIAN"
          [] upper \in {"PCT", "PERCENT", "%"} -> "PERCENT"
          [] upper \in {"DB", "DECIBEL", "DECIBELS"} -> "DECIBEL"
          [] upper = "DBM" -> "DBM"
          [] OTHER -> "NONE"

UnitParser_parseUnitSuffix(suffix) ==
    LET whole == UnitParser_parseBaseUnit(suffix)
        rest == UnitParser_parseBaseUnit(SubSeq(suffix, 2, Len(suffix)))
        prefix == UnitParser_parsePrefixChar(SubSeq(suffix, 1, 1))
    IN  IF suffix = "" THEN [ok |-> TRUE, prefix |-> "NONE", unit |-> "NONE"]
        ELSE IF whole # "NONE" THEN [ok |-> TRUE, prefix |-> "NONE", unit |-> whole]
        ELSE IF Len(suffix) >= 2 /\ rest # "NONE" /\ prefix # "NONE"
        THEN [ok |-> TRUE, prefix |-> prefix, unit |-> rest]
        ELSE IF toUpper(suffix) = "MA" THEN [ok |-> TRUE, prefix |-> "MEGA", unit |-> "NONE"]
        ELSE [ok |-> FALSE, prefix |-> "NONE", unit |-> "NONE"]

\* The scan of UnitParser::parse over the numeric part: the position it stops at.
\* The loop takes digits throughout, one point before the exponent, and
\* one e or E with the sign after it.
UnitParser_scanDigits(input, numEnd) == numEnd + DigitRun(input, numEnd)

UnitParser_scanExponent(input, numEnd) ==
    IF CharAt(input, numEnd) \in {"e", "E"}
    THEN UnitParser_scanDigits(input,
             IF CharAt(input, numEnd + 1) \in {"+", "-"} THEN numEnd + 2 ELSE numEnd + 1)
    ELSE numEnd

UnitParser_scanFraction(input, numEnd) ==
    UnitParser_scanExponent(input,
        IF CharAt(input, numEnd) = "." THEN UnitParser_scanDigits(input, numEnd + 1)
        ELSE numEnd)

UnitParser_scanNumber(input, numEnd, hasDecimal, hasExponent) ==
    IF hasExponent THEN UnitParser_scanDigits(input, numEnd)
    ELSE IF hasDecimal THEN UnitParser_scanExponent(input, UnitParser_scanDigits(input, numEnd))
    ELSE UnitParser_scanFraction(input, UnitParser_scanDigits(input, numEnd))

UnitParser_parse(input) ==
    LET signed == CharAt(input, 0) \in {"+", "-"}
        numEnd == UnitParser_scanNumber(input, IF signed THEN 1 ELSE 0, FALSE, FALSE)
        us == UnitParser_parseUnitSuffix(Substr(input, numEnd, Len(input) - numEnd))
        fail == [ok |-> FALSE, hasUnit |-> FALSE, rawValue |-> "", prefix |-> "NONE", unit |-> "NONE"]
    IN  IF input = "" THEN fail
        ELSE IF numEnd = 0 \/ (numEnd = 1 /\ signed) THEN fail
        ELSE IF ~StoD(Substr(input, 0, numEnd)).ok THEN fail
        ELSE IF numEnd < Len(input) /\ ~us.ok THEN fail
        ELSE [ok |-> TRUE,
              hasUnit |-> numEnd < Len(input) /\ (us.unit # "NONE" \/ us.prefix # "NONE"),
              rawValue |-> Substr(input, 0, numEnd),
              prefix |-> IF numEnd < Len(input) THEN us.prefix ELSE "NONE",
              unit |-> IF numEnd < Len(input) THEN us.unit ELSE "NONE"]

\* UnitValue(): the value UnitParser::parse starts from.
UnitValue_new == [rawValue |-> "0", prefix |-> "NONE", unit |-> "NONE", hasUnit |-> FALSE]

Parameter_new ==
    [type |-> "NONE", intValue |-> "0", doubleValue |-> "0", boolValue |-> FALSE,
     stringValue |-> "", keyword |-> "NONE", unitValue |-> UnitValue_new,
     channelList |-> <<>>, blockData |-> <<>>]

\* fromInt of the int64 whose decimal text value is.
Parameter_fromInt(value) ==
    [Parameter_new EXCEPT !.type = "INTEGER", !.intValue = value, !.doubleValue = value]

\* fromDouble of the double that text converts to.  intValue_ repeats the
\* conversion toInt64 makes of doubleValue_.
Parameter_fromDouble(text) == [Parameter_new EXCEPT !.type = "DOUBLE", !.doubleValue = text]

Parameter_fromBoolean(value) ==
    [Parameter_new EXCEPT !.type = "BOOLEAN", !.boolValue = value,
                          !.intValue = IF value THEN "1" ELSE "0",
                          !.doubleValue = IF value THEN "1" ELSE "0"]

Parameter_fromString(value) ==
    [Parameter_new EXCEPT !.type = "STRING", !.stringValue = value]

Parameter_fromKeyword(keyword) ==
    [Parameter_new EXCEPT !.type = "NUMERIC_KEYWORD", !.keyword = keyword,
                          !.doubleValue = keywordToDouble(keyword)]

Parameter_fromIdentifier(value) ==
    LET upper == toUpper(value)
        kw == parseNumericKeyword(value)
    IN  IF upper \in {"ON", "TRUE", "1"} THEN Parameter_fromBoolean(TRUE)
        ELSE IF upper \in {"OFF", "FALSE", "0"} THEN Parameter_fromBoolean(FALSE)
        ELSE IF kw # "NONE" THEN Parameter_fromKeyword(kw)
        ELSE [Parameter_new EXCEPT !.type = "IDENTIFIER", !.stringValue = value]

\* fromUnitValue.  doubleValue_ and intValue_ repeat unitValue_.scaledValue
\* and its conversion, which are computed from unitValue where they are read.
Parameter_fromUnitValue(uv) ==
    [Parameter_new EXCEPT !.type = "NUMERIC_WITH_UNIT",
                          !.unitValue = [rawValue |-> uv.rawValue, prefix |-> uv.prefix,
                                         unit |-> uv.unit, hasUnit |-> uv.hasUnit]]

Parameter_fromChannelList(channels) ==
    [Parameter_new EXCEPT !.type = "CHANNEL_LIST", !.channelList = channels]

Parameter_fromBlockData(data) ==
    [Parameter_new EXCEPT !.type = "BLOCK_DATA", !.blockData = data]

\* fromToken.  uv is UnitParser::parse of an IDENTIFIER token's text.
Parameter_fromIdentifierToken(token, uv) ==
    IF uv.ok /\ uv.hasUnit THEN Parameter_fromUnitValue(uv)
    ELSE Parameter_fromIdentifier(token.value)

Parameter_fromToken(token) ==
    IF token.type = "NUMBER"
    THEN IF token.isInteger
         THEN Parameter_fromInt(DecimalToInt64(StoD(token.numberValue)))
         ELSE Parameter_fromDouble(token.numberValue)
    ELSE IF token.type = "STRING" THEN Parameter_fromString(token.value)
    ELSE IF token.type = "IDENTIFIER"
    THEN Parameter_fromIdentifierToken(token, UnitParser_parse(token.value))
    ELSE IF token.type = "BLOCK_DATA" THEN Parameter_fromBlockData(token.blockData)
    ELSE Parameter_new

Parameter_isNumeric(p) ==
    p.type \in {"INTEGER", "DOUBLE", "NUMERIC_WITH_UNIT", "NUMERIC_KEYWORD"}

\* isspace of the characters of the model.
isSpace(c) == c \in {" ", "\t", "\n", "\r"}

SpaceRun(s, i) == RunLength(s, i, {" ", "\t", "\n", "\r"})

INT64_MAX_DIGITS == "9223372036854775807"
INT64_MIN_DIGITS == "9223372036854775808"

\* std::stoll(s) in the try block of toInt64, as decimal text: white space,
\* a sign and digits are read, what follows is ignored; without a digit, or
\* with a value outside int64, it throws and defaultValue is returned.
StoLLDigits(neg, digits, n, defaultValue) ==
    IF n = 0 THEN defaultValue
    ELSE IF DigitsBeyond(digits, IF neg THEN INT64_MIN_DIGITS ELSE INT64_MAX_DIGITS)
    THEN defaultValue
    ELSE IF digits = "" THEN "0"
    ELSE (IF neg THEN "-" ELSE "") \o digits

StoLLRun(s, neg, p1, n, defaultValue) ==
    StoLLDigits(neg, StripZeros(Substr(s, p1, n)), n, defaultValue)

StoLLSign(s, neg, p1, defaultValue) == StoLLRun(s, neg, p1, DigitRun(s, p1), defaultValue)

StoLLSpace(s, p0, defaultValue) ==
    StoLLSign(s, CharAt(s, p0) = "-", IF CharAt(s, p0) \in {"+", "-"} THEN p0 + 1 ELSE p0,
              defaultValue)

StoLL(s, defaultValue) == StoLLSpace(s, SpaceRun(s, 0), defaultValue)

\* unitValue_.scaledValue = rawValue * multiplier.
Parameter_scaledValue(p) ==
    DoubleMul(DoubleOf(p.unitValue.rawValue), UnitParser_getMultiplier(p.unitValue.prefix))

\* toInt64, as decimal text.  The conversion of a double outside int64, of
\* an infinity or of a NaN is Undefined.
Parameter_toInt64(p, defaultValue) ==
    CASE p.type = "INTEGER" -> p.intValue
      [] p.type = "DOUBLE" -> DecimalToInt64(StoD(p.doubleValue))
      [] p.type = "BOOLEAN" -> (IF p.boolValue THEN "1" ELSE "0")
      [] p.type = "NUMERIC_WITH_UNIT" ->
            DoubleToInt64(StoD(p.unitValue.rawValue).neg, Parameter_scaledValue(p))
      [] p.type = "NUMERIC_KEYWORD" ->
            (IF keywordToDouble(p.keyword) = "0" THEN "0" ELSE Undefined)
      [] p.type \in {"STRING", "IDENTIFIER"} -> StoLL(p.stringValue, defaultValue)
      [] OTHER -> defaultValue

\* toInt32 over toInt64; undef is the value an undefined conversion ends up as.
Parameter_toInt32(p, defaultValue, undef) ==
    Int64ToInt32(Parameter_toInt64(p, ToString(defaultValue)), undef)

\* What an undefined conversion to an integer can end up as after toInt32.
UndefinedInt32 == {-INT32_MAX - 1, 0, INT32_MAX}

(***************************************************************************)
(* CommandSplitter (command_splitter.cpp).  Every parse function takes the *)
(* input and the lexer position and yields ok, the position reached, what  *)
(* it parsed, and on failure the error setError recorded.                  *)
(***************************************************************************)
MAX_COMMAND_LENGTH == 65536
MAX_EXPAND == 100000

\* A splitter that records every failure as a syntax error.
SplitError_syntaxOnly(code, msg, pos) ==
    [code |-> SYNTAX_ERROR, message |-> msg, position |-> pos]

SplitError(code, msg, pos) == [code |-> code, message |-> msg, position |-> pos]
NoSplitError == SplitError(NO_ERROR, "", 0)

PathNode(name, suffix, hasSuffix) == [name |-> name, suffix |-> suffix, hasSuffix |-> hasSuffix]

ParsedCommand_new ==
    [isCommon |-> FALSE, isAbsolute |-> FALSE, isQuery |-> FALSE, path |-> <<>>, params |-> <<>>]

IsTerminator(t) == t.type \in {"SEMICOLON", "NEWLINE", "END_OF_INPUT"}

CommandSplitter_areAdjacent(a, b) == a.position + a.length = b.position

RECURSIVE CommandSplitter_skipParamSeparators(_, _)
CommandSplitter_skipParamSeparators(lx, pos) ==
    LET n == lx[pos]
    IN  IF n.tok.type \in {"WHITESPACE", "COMMA"}
        THEN CommandSplitter_skipParamSeparators(lx, n.pos)
        ELSE pos

\* The identifier loop of parseHeader.
RECURSIVE CommandSplitter_parseHeaderPath(_, _, _, _)
CommandSplitter_parseHeaderPath(lx, pos, cmd, gotAny) ==
    LET n == lx[pos]
        id == n.tok
        pn == IF id.hasNumericSuffix THEN PathNode(id.baseName, id.numericSuffix, TRUE)
              ELSE PathNode(id.value, 0, FALSE)
        cmd1 == [cmd EXCEPT !.path = Append(@, pn)]
        t == lx[n.pos]
    IN  IF id.type # "IDENTIFIER"
        THEN [ok |-> FALSE, pos |-> n.pos, cmd |-> cmd,
              err |-> SplitError(SYNTAX_ERROR,
                         IF ~gotAny THEN "Expected command identifier"
                         ELSE "Unexpected token in command header", id.position)]
        ELSE IF t.tok.type = "QUESTION"
        THEN [ok |-> TRUE, pos |-> t.pos, cmd |-> [cmd1 EXCEPT !.isQuery = TRUE], err |-> NoSplitError]
        ELSE IF t.tok.type = "COLON"
        THEN CommandSplitter_parseHeaderPath(lx, t.pos, cmd1, TRUE)
        ELSE [ok |-> TRUE, pos |-> n.pos, cmd |-> cmd1, err |-> NoSplitError]

CommandSplitter_parseHeader(lx, pos, cmd) ==
    LET first == lx[pos]
        nameTok == lx[first.pos]
        q == lx[nameTok.pos]
        cc == [cmd EXCEPT !.isCommon = TRUE,
                              !.path = Append(@, PathNode(nameTok.tok.value, 0, FALSE))]
    IN  IF first.tok.type = "ASTERISK"
        THEN IF nameTok.tok.type # "IDENTIFIER"
             THEN [ok |-> FALSE, pos |-> nameTok.pos, cmd |-> [cmd EXCEPT !.isCommon = TRUE],
                   err |-> SplitError(SYNTAX_ERROR, "Expected common command mnemonic after '*'",
                                      nameTok.tok.position)]
             ELSE IF q.tok.type = "QUESTION"
             THEN [ok |-> TRUE, pos |-> q.pos, cmd |-> [cc EXCEPT !.isQuery = TRUE],
                   err |-> NoSplitError]
             ELSE [ok |-> TRUE, pos |-> nameTok.pos, cmd |-> cc, err |-> NoSplitError]
        ELSE IF first.tok.type = "COLON"
        THEN CommandSplitter_parseHeaderPath(lx, first.pos, [cmd EXCEPT !.isAbsolute = TRUE], FALSE)
        ELSE CommandSplitter_parseHeaderPath(lx, pos, cmd, FALSE)

\* What stands for the error of a parse that does not return.
NoReturn == "no return"

\* The inclusive expansion start..end of a channel range.
ChannelRange(start, end) == [i \in 1..(end - start + 1) |-> start + i - 1]

RECURSIVE CommandSplitter_parseChannelItems(_, _, _, _)
CommandSplitter_channelFail(code, msg, at, p) ==
    [ok |-> FALSE, pos |-> p, param |-> Parameter_new, err |-> SplitError(code, msg, at)]

\* static_cast<int> of a NUMBER token's numberValue.
CommandSplitter_channelInt(tok, undef) ==
    Int64ToInt(DecimalToInt64(StoD(tok.numberValue)), undef)

\* After one item: a comma is consumed, anything else is left for the next round.
CommandSplitter_parseChannelNext(lx, p, chs, undef) ==
    CommandSplitter_parseChannelItems(lx, IF lx[p].tok.type = "COMMA" THEN lx[p].pos ELSE p,
                                      chs, undef)

\* The range start:end whose tokens are n1 and n2, the lexer being at p.
\* for (int v = start; v <= end; ++v) has no end when end is INT32_MAX: the
\* counter overflows, which is undefined, and in the build wraps around and
\* goes on pushing until the vector cannot grow; the std::bad_alloc is
\* caught nowhere.  The parse does not return then, which the message
\* NoReturn in place of an error stands for.
CommandSplitter_parseChannelRange(lx, channels, n1, n2, p, start, end, undef) ==
    IF end < start
    THEN CommandSplitter_channelFail(ILLEGAL_PARAMETER_VALUE,
                                     "Invalid channel range: end < start", n2.position, p)
    ELSE IF (IF start < 0 THEN end >= MAX_EXPAND + start ELSE end - start >= MAX_EXPAND)
    THEN CommandSplitter_channelFail(TOO_MUCH_DATA, "Channel range too large", n1.position, p)
    ELSE IF Len(channels) + (end - start + 1) > MAX_EXPAND
    THEN CommandSplitter_channelFail(TOO_MUCH_DATA, "Channel range expansion too large",
                                     n1.position, p)
    ELSE IF end = INT32_MAX
    THEN CommandSplitter_channelFail(NO_ERROR, NoReturn, n1.position, p)
    ELSE CommandSplitter_parseChannelNext(lx, p, channels \o ChannelRange(start, end), undef)

\* The loop of parseChannelList after '(' and '@'.  undef is what the
\* conversion of a channel number outside int yields.
CommandSplitter_parseChannelItems(lx, pos0, channels, undef) ==
    LET pos == CommandSplitter_skipParamSeparators(lx, pos0)
        t == lx[pos]
        n1 == t.tok
        maybeColon == lx[t.pos]
        n2r == lx[maybeColon.pos]
        n2 == n2r.tok
    IN  IF n1.type = "RPAREN"
        THEN [ok |-> TRUE, pos |-> t.pos, param |-> Parameter_fromChannelList(channels),
              err |-> NoSplitError]
        ELSE IF n1.type # "NUMBER" \/ ~n1.isInteger
        THEN CommandSplitter_channelFail(DATA_TYPE_ERROR, "Expected integer in channel list",
                                         n1.position, t.pos)
        ELSE IF maybeColon.tok.type = "COLON"
        THEN IF n2.type # "NUMBER" \/ ~n2.isInteger
             THEN CommandSplitter_channelFail(DATA_TYPE_ERROR,
                      "Expected integer range end in channel list", n2.position, n2r.pos)
             ELSE CommandSplitter_parseChannelRange(lx, channels, n1, n2, n2r.pos,
                      CommandSplitter_channelInt(n1, undef),
                      CommandSplitter_channelInt(n2, undef), undef)
        ELSE IF Len(channels) + 1 > MAX_EXPAND
        THEN CommandSplitter_channelFail(TOO_MUCH_DATA, "Too many channels", n1.position, t.pos)
        ELSE CommandSplitter_parseChannelNext(lx, t.pos,
                 Append(channels, CommandSplitter_channelInt(n1, undef)), undef)

CommandSplitter_parseChannelList(lx, pos, undef) ==
    LET lp == lx[pos]
        at == lx[CommandSplitter_skipParamSeparators(lx, lp.pos)]
        fail(msg, tok, p) ==
            [ok |-> FALSE, pos |-> p, param |-> Parameter_new,
             err |-> SplitError(SYNTAX_ERROR, msg, tok.position)]
    IN  IF lp.tok.type # "LPAREN"
        THEN fail("Expected '(' to start channel list", lp.tok, lp.pos)
        ELSE IF at.tok.type # "AT"
        THEN fail("Expected '@' after '(' in channel list", at.tok, at.pos)
        ELSE CommandSplitter_parseChannelItems(lx, at.pos, <<>>, undef)

\* A NUMBER token t followed by an adjacent IDENTIFIER: uv is the unit parse
\* of the two together.
CommandSplitter_numberWithUnit(t, n, nx, uv) ==
    IF uv.ok /\ uv.hasUnit
    THEN [ok |-> TRUE, pos |-> nx.pos, param |-> Parameter_fromUnitValue(uv), err |-> NoSplitError]
    ELSE [ok |-> TRUE, pos |-> n.pos, param |-> Parameter_fromToken(t), err |-> NoSplitError]

\* parseOneParameter: the parameter that results and the position reached.
CommandSplitter_parseOneParameter(lx, pos, undef) ==
    LET n == lx[pos]
        t == n.tok
        nx == lx[n.pos]
        nextTok == nx.tok
        good(p, param) == [ok |-> TRUE, pos |-> p, param |-> param, err |-> NoSplitError]
    IN  IF t.type = "LPAREN" THEN CommandSplitter_parseChannelList(lx, pos, undef)
        ELSE IF t.type = "BLOCK_DATA" THEN good(n.pos, Parameter_fromBlockData(t.blockData))
        ELSE IF t.type = "STRING" THEN good(n.pos, Parameter_fromString(t.value))
        ELSE IF t.type = "NUMBER"
        THEN IF nextTok.type = "IDENTIFIER" /\ CommandSplitter_areAdjacent(t, nextTok)
             THEN IF Len(t.value) + Len(nextTok.value) > MAX_COMMAND_LENGTH
                  THEN [ok |-> FALSE, pos |-> n.pos, param |-> Parameter_new,
                        err |-> SplitError(DATA_TYPE_ERROR, "Parameter too long", t.position)]
                  ELSE CommandSplitter_numberWithUnit(t, n, nx,
                                                      UnitParser_parse(t.value \o nextTok.value))
             ELSE good(n.pos, Parameter_fromToken(t))
        ELSE IF t.type = "IDENTIFIER"
        THEN IF t.value \in {"+", "-"} /\ nextTok.type = "IDENTIFIER"
                /\ CommandSplitter_areAdjacent(t, nextTok)
             THEN good(nx.pos, Parameter_fromIdentifier(t.value \o nextTok.value))
             ELSE good(n.pos, Parameter_fromIdentifier(t.value))
        ELSE [ok |-> FALSE, pos |-> pos, param |-> Parameter_new,
              err |-> SplitError(SYNTAX_ERROR, "Unexpected token in parameters: " \o t.type,
                                 t.position)]

\* parseParameters: r is what parseOneParameter made of the next parameter.
RECURSIVE CommandSplitter_parseParameters(_, _, _, _)
CommandSplitter_parseParametersNext(lx, cmd, r, undef) ==
    IF ~r.ok THEN [ok |-> FALSE, pos |-> r.pos, cmd |-> cmd, err |-> r.err]
    ELSE CommandSplitter_parseParameters(lx, r.pos, [cmd EXCEPT !.params = Append(@, r.param)],
                                         undef)

CommandSplitter_parseParameters(lx, pos0, cmd, undef) ==
    LET pos == CommandSplitter_skipParamSeparators(lx, pos0)
        done(p) == [ok |-> TRUE, pos |-> p, cmd |-> cmd, err |-> NoSplitError]
    IN  IF IsTerminator(lx[pos0].tok) THEN done(pos0)
        ELSE IF IsTerminator(lx[pos].tok) THEN done(pos)
        ELSE CommandSplitter_parseParametersNext(lx, cmd,
                 CommandSplitter_parseOneParameter(lx, pos, undef), undef)

\* parseOneCommand: h is what parseHeader made of the header.
CommandSplitter_parseOneCommandAfterHeader(lx, h, undef) ==
    IF ~h.ok THEN h
    ELSE IF ~IsTerminator(lx[h.pos].tok)
    THEN CommandSplitter_parseParameters(lx, h.pos, h.cmd, undef)
    ELSE h

CommandSplitter_parseOneCommand(lx, pos, undef) ==
    CommandSplitter_parseOneCommandAfterHeader(lx,
        CommandSplitter_parseHeader(lx, pos, ParsedCommand_new), undef)

\* Leading NEWLINE (and WHITESPACE) tokens before a command are skipped.
RECURSIVE CommandSplitter_skipNewlines(_, _)
CommandSplitter_skipNewlines(lx, pos) ==
    LET n == lx[pos]
    IN  IF n.tok.type \in {"NEWLINE", "WHITESPACE"}
        THEN CommandSplitter_skipNewlines(lx, n.pos)
        ELSE pos

\* The loop of split: r is what parseOneCommand made of the next command.
RECURSIVE CommandSplitter_splitFrom(_, _, _, _)
CommandSplitter_splitNext(lx, commands, r, undef) ==
    LET t == lx[r.pos]
    IN  IF ~r.ok
        THEN [ok |-> FALSE, commands |-> commands, errorCode |-> r.err.code,
              errorMessage |-> r.err.message, errorPosition |-> r.err.position]
        ELSE IF t.tok.type \in {"SEMICOLON", "NEWLINE"}
        THEN CommandSplitter_splitFrom(lx, t.pos, Append(commands, r.cmd), undef)
        ELSE IF t.tok.type = "END_OF_INPUT"
        THEN [ok |-> TRUE, commands |-> Append(commands, r.cmd), errorCode |-> NO_ERROR,
              errorMessage |-> "", errorPosition |-> 0]
        ELSE [ok |-> FALSE, commands |-> Append(commands, r.cmd), errorCode |-> SYNTAX_ERROR,
              errorMessage |-> "Expected ';' or newline or end of input",
              errorPosition |-> t.tok.position]

CommandSplitter_splitFrom(lx, pos0, commands, undef) ==
    LET pos == CommandSplitter_skipNewlines(lx, pos0)
    IN  IF lx[pos].tok.type = "END_OF_INPUT"
        THEN [ok |-> TRUE, commands |-> commands, errorCode |-> NO_ERROR, errorMessage |-> "",
              errorPosition |-> 0]
        ELSE CommandSplitter_splitNext(lx, commands, CommandSplitter_parseOneCommand(lx, pos, undef),
                                       undef)

\* The splitter's lexer over the input: the token at each position and the
\* position after it.
Lexer_new(input) == [p \in 0..Len(input) |-> Lexer_nextToken(input, p)]

\* split.  undef is what the conversion of a channel number outside int
\* yields, should the input hold one.
CommandSplitter_split(input, undef) ==
    CommandSplitter_splitFrom(Lexer_new(input), 0, <<>>, undef)

\* Whether the split that made sp returned.
CommandSplitter_returns(sp) == sp.errorMessage # NoReturn

\* What the undefined conversions of a split of input can yield.
CommandSplitter_undefinedOutcomes(input) ==
    IF CommandSplitter_split(input, -INT32_MAX - 1) = CommandSplitter_split(input, INT32_MAX)
    THEN {0} ELSE UndefinedInt32

\* Every result split can have on input.
CommandSplitter_splits(input) ==
    {CommandSplitter_split(input, undef) : undef \in CommandSplitter_undefinedOutcomes(input)}

(***************************************************************************)
(* PatternParser (pattern_parser.cpp) and the node-parameter constraint    *)
(* (node_param.h).                                                         *)
(***************************************************************************)
NodeParamConstraint_new ==
    [minValue |-> 1, maxValue |-> INT32_MAX, required |-> TRUE, defaultValue |-> 1]

NodeParamConstraint_validate(c, value) == value >= c.minValue /\ value <= c.maxValue

PatternNode_new ==
    [shortName |-> "", longName |-> "", isOptional |-> FALSE, hasParam |-> FALSE,
     paramName |-> "", constraint |-> NodeParamConstraint_new]

\* 0-based place of the first c in s at or after i, Len(s) when there is none.
RECURSIVE FindFrom(_, _, _)
FindFrom(s, c, i) ==
    IF i >= Len(s) THEN Len(s)
    ELSE IF CharAt(s, i) = c THEN i
    ELSE FindFrom(s, c, i + 1)

\* Occurrences of c in s.
RECURSIVE CountChar(_, _)
CountChar(s, c) ==
    IF s = "" THEN 0
    ELSE (IF SubSeq(s, 1, 1) = c THEN 1 ELSE 0) + CountChar(SubSeq(s, 2, Len(s)), c)

\* Only the upper-case letters of name.
RECURSIVE UpperLetters(_)
UpperLetters(name) ==
    IF name = "" THEN ""
    ELSE (IF IndexIn(SubSeq(name, 1, 1), UpperCase) # 0 THEN SubSeq(name, 1, 1) ELSE "")
         \o UpperLetters(SubSeq(name, 2, Len(name)))

PatternParser_extractShortName(name) ==
    IF UpperLetters(name) = "" THEN toUpper(name) ELSE UpperLetters(name)

\* std::stoi: white space, an optional sign and digits are read, what
\* follows is ignored; without a digit, or with a value outside int, it
\* throws and ok is FALSE.
StoIDigits(neg, digits, n) ==
    IF n = 0 THEN [ok |-> FALSE, value |-> 0]
    ELSE IF neg /\ digits = "2147483648" THEN [ok |-> TRUE, value |-> -INT32_MAX - 1]
    ELSE IF DigitsBeyond(digits, INT32_MAX_DIGITS) THEN [ok |-> FALSE, value |-> 0]
    ELSE [ok |-> TRUE, value |-> IF neg THEN 0 - DecValue(digits) ELSE DecValue(digits)]

StoIRun(s, neg, p1, n) == StoIDigits(neg, StripZeros(Substr(s, p1, n)), n)

StoISign(s, neg, p1) == StoIRun(s, neg, p1, DigitRun(s, p1))

StoISpace(s, p0) ==
    StoISign(s, CharAt(s, p0) = "-", IF CharAt(s, p0) \in {"+", "-"} THEN p0 + 1 ELSE p0)

StoI(s) == StoISpace(s, SpaceRun(s, 0))

AutoName(autoIndex) == "_" \o ToString(autoIndex)

PatternParser_parseParamDef(paramStr, autoIndex) ==
    LET colonPos == FindFrom(paramStr, ":", 0)
        hasColon == colonPos < Len(paramStr)
        rangeStr == Substr(paramStr, colonPos + 1, Len(paramStr) - colonPos - 1)
        dashPos == FindFrom(rangeStr, "-", 0)
        mn == StoI(Substr(rangeStr, 0, dashPos))
        mx == StoI(Substr(rangeStr, dashPos + 1, Len(rangeStr) - dashPos - 1))
        name == IF hasColon THEN Substr(paramStr, 0, colonPos) ELSE paramStr
        \* what the failing call leaves in name and constraint
        fail == [ok |-> FALSE, name |-> name,
                 constraint |-> [NodeParamConstraint_new EXCEPT
                                    !.minValue = IF dashPos < Len(rangeStr) /\ mn.ok
                                                 THEN mn.value ELSE @,
                                    !.maxValue = IF dashPos < Len(rangeStr) /\ mn.ok /\ mx.ok
                                                 THEN mx.value ELSE @],
                 autoIndex |-> autoIndex]
    IN  IF paramStr = ""
        THEN [ok |-> TRUE, name |-> AutoName(autoIndex), constraint |-> NodeParamConstraint_new,
              autoIndex |-> autoIndex + 1]
        ELSE IF hasColon /\ (dashPos >= Len(rangeStr) \/ ~mn.ok \/ ~mx.ok \/ mn.value > mx.value)
        THEN fail
        ELSE [ok |-> TRUE,
              name |-> IF name = "" THEN AutoName(autoIndex) ELSE name,
              constraint |-> IF hasColon
                             THEN [NodeParamConstraint_new EXCEPT !.minValue = mn.value,
                                                                  !.maxValue = mx.value]
                             ELSE NodeParamConstraint_new,
              autoIndex |-> IF name = "" THEN autoIndex + 1 ELSE autoIndex]

PatternParser_parseNode(nodeStr, autoIndex) ==
    LET bracketed == CharAt(nodeStr, 0) = "["
        closed == CharAt(nodeStr, Len(nodeStr) - 1) = "]"
        str == IF bracketed /\ closed THEN Substr(nodeStr, 1, Len(nodeStr) - 2) ELSE nodeStr
        paramStart == FindFrom(str, "<", 0)
        hashPos == FindFrom(str, "#", 0)
        paramEnd == FindFrom(str, ">", paramStart)
        pd == PatternParser_parseParamDef(Substr(str, paramStart + 1, paramEnd - paramStart - 1),
                                          autoIndex)
        named(base) == [PatternNode_new EXCEPT !.isOptional = bracketed,
                                                !.longName = base,
                                                !.shortName = PatternParser_extractShortName(base)]
        fail == [ok |-> FALSE, node |-> PatternNode_new, autoIndex |-> autoIndex]
        good(node, ai) == IF node.longName = "" THEN fail
                          ELSE [ok |-> TRUE, node |-> node, autoIndex |-> ai]
    IN  IF bracketed /\ ~closed THEN fail
        ELSE IF str = "" THEN fail
        ELSE IF paramStart < Len(str)
        THEN IF paramEnd >= Len(str) \/ paramEnd + 1 < Len(str) \/ ~pd.ok THEN fail
             ELSE good([named(Substr(str, 0, paramStart)) EXCEPT
                           !.hasParam = TRUE, !.paramName = pd.name,
                           !.constraint = pd.constraint], pd.autoIndex)
        ELSE IF hashPos < Len(str)
        THEN IF hashPos + 1 # Len(str) THEN fail
             ELSE good([named(Substr(str, 0, hashPos)) EXCEPT
                           !.hasParam = TRUE, !.paramName = AutoName(autoIndex)], autoIndex + 1)
        ELSE good(named(str), autoIndex)

\* The splitting loop of parse: the parts, and the depths left at the end.
RECURSIVE PatternParser_splitParts(_, _, _, _, _, _)
PatternParser_splitParts(pat, i, current, parts, bracketDepth, angleDepth) ==
    LET c == CharAt(pat, i)
        flushed == IF current # "" THEN Append(parts, current) ELSE parts
        close == FindFrom(pat, "]", i + 2)
        inner == Substr(pat, i + 2, close - (i + 2))
        optPart == "[" \o inner \o (IF close < Len(pat) THEN "]" ELSE "")
    IN  IF i >= Len(pat)
        THEN [parts |-> flushed, bracketDepth |-> bracketDepth, angleDepth |-> angleDepth]
        ELSE IF c = "[" /\ CharAt(pat, i + 1) = ":"
        THEN PatternParser_splitParts(pat, close + 1, "", Append(flushed, optPart), bracketDepth,
                 angleDepth + CountChar(inner, "<") - CountChar(inner, ">"))
        ELSE IF c = "["
        THEN PatternParser_splitParts(pat, i + 1, current \o c, parts, bracketDepth + 1, angleDepth)
        ELSE IF c = "]"
        THEN PatternParser_splitParts(pat, i + 1, current \o c, parts,
                 IF bracketDepth > 0 THEN bracketDepth - 1 ELSE bracketDepth, angleDepth)
        ELSE IF c = "<"
        THEN PatternParser_splitParts(pat, i + 1, current \o c, parts, bracketDepth, angleDepth + 1)
        ELSE IF c = ">"
        THEN PatternParser_splitParts(pat, i + 1, current \o c, parts, bracketDepth, angleDepth - 1)
        ELSE IF c = ":" /\ bracketDepth = 0 /\ angleDepth = 0
        THEN PatternParser_splitParts(pat, i + 1, "", flushed, bracketDepth, angleDepth)
        ELSE PatternParser_splitParts(pat, i + 1, current \o c, parts, bracketDepth, angleDepth)

\* One round of the node loop of parse: r is what parseNode made of the part.
RECURSIVE PatternParser_parseNodes(_, _, _)
PatternParser_parseNodesNext(parts, nodes, r) ==
    IF ~r.ok THEN [ok |-> FALSE, nodes |-> nodes]
    ELSE PatternParser_parseNodes(Tail(parts), Append(nodes, r.node), r.autoIndex)

PatternParser_parseNodes(parts, nodes, autoIndex) ==
    IF parts = <<>> THEN [ok |-> TRUE, nodes |-> nodes]
    ELSE PatternParser_parseNodesNext(parts, nodes,
                                      PatternParser_parseNode(Head(parts), autoIndex))

\* The end of parse: r is what the node loop returned.
PatternParser_parseEnd(isQuery, r) ==
    IF ~r.ok THEN [ok |-> FALSE, nodes |-> r.nodes, isQuery |-> isQuery]
    ELSE [ok |-> TRUE, nodes |-> r.nodes, isQuery |-> isQuery]

\* parse after the splitting loop (sp).
PatternParser_parseSplit(isQuery, sp) ==
    IF sp.parts = <<>> \/ sp.bracketDepth # 0 \/ sp.angleDepth # 0
    THEN [ok |-> FALSE, nodes |-> <<>>, isQuery |-> isQuery]
    ELSE PatternParser_parseEnd(isQuery, PatternParser_parseNodes(sp.parts, <<>>, 1))

\* parse of the pattern without its trailing '?'.
PatternParser_parseBody(isQuery, pat) ==
    PatternParser_parseSplit(isQuery,
        PatternParser_splitParts(pat, IF CharAt(pat, 0) = ":" THEN 1 ELSE 0, "", <<>>, 0, 0))

PatternParser_parse(pattern) ==
    IF pattern = "" THEN [ok |-> FALSE, nodes |-> <<>>, isQuery |-> FALSE]
    ELSE IF CharAt(pattern, Len(pattern) - 1) = "?"
    THEN PatternParser_parseBody(TRUE, Substr(pattern, 0, Len(pattern) - 1))
    ELSE PatternParser_parseBody(FALSE, pattern)

(***************************************************************************)
(* CommandNode and CommandTree (command_node.cpp, command_tree.cpp).  The  *)
(* tree is a function from node names to node records; a node's name is    *)
(* the sequence of child-map keys from the root, the root's name is <<>>.  *)
(* A handler is named by a string, the empty std::function by "".          *)
(***************************************************************************)
NullHandler == ""
Root == <<>>
NullNode == <<"nullptr">>              \* the null CommandNode pointer

CommandNode_new(shortName, longName, paramDef) ==
    [shortName |-> shortName, longName |-> longName, paramDef |-> paramDef,
     isOptional |-> FALSE, handler |-> NullHandler, queryHandler |-> NullHandler]

NodeParamDef_new == [name |-> "", constraint |-> NodeParamConstraint_new]

PatternNode_getParamDef(pn) ==
    IF pn.hasParam THEN [name |-> pn.paramName, constraint |-> pn.constraint]
    ELSE NodeParamDef_new

CommandNode_hasParam(node) == node.paramDef.name # ""

CommandTree_new == (Root :> CommandNode_new("ROOT", "ROOT", NodeParamDef_new))

\* The keys of a node's child map.
ChildKeys(t, p) == {q[Len(q)] : q \in {x \in DOMAIN t : Len(x) = Len(p) + 1 /\ SubSeq(x, 1, Len(p)) = p}}

\* A set of strings in the iteration order of std::map.
RECURSIVE SortedKeys(_)
SortedKeys(S) ==
    IF S = {} THEN <<>>
    ELSE LET x == CHOOSE k \in S : TRUE
             rest == SortedKeys(S \ {x})
             n == Cardinality({i \in 1..Len(rest) : StringLess(rest[i], x)})
         IN  SubSeq(rest, 1, n) \o <<x>> \o SubSeq(rest, n + 1, Len(rest))

CommandNode_children(t, p) == SortedKeys(ChildKeys(t, p))

CommandNode_addChild(t, p, shortName, longName, paramDef) ==
    LET key == toUpper(shortName)
        child == Append(p, key)
        \* children_[key] = ... replaces a child of that key together with its subtree
        kept == {x \in DOMAIN t : ~(Len(x) >= Len(child) /\ SubSeq(x, 1, Len(child)) = child)}
    IN  (child :> CommandNode_new(shortName, longName, paramDef)) @@ [x \in kept |-> t[x]]

CommandNode_matchName(input, shortName, longName) ==
    LET upperInput == toUpper(input)
        upperShort == toUpper(shortName)
        upperLong == toUpper(longName)
    IN  \/ upperInput = upperShort
        \/ upperInput = upperLong
        \/ /\ Len(upperInput) >= Len(upperShort)
           /\ Len(upperInput) <= Len(upperLong)
           /\ SubSeq(upperLong, 1, Len(upperInput)) = upperInput

\* A per-child test that looks at the name only.
CommandNode_accepts_byName(child, baseName, suffix, hasSuffix) ==
    CommandNode_matchName(toUpper(baseName), child.shortName, child.longName)

\* Whether findChild returns this child, and the value it extracts.
CommandNode_accepts(child, baseName, suffix, hasSuffix) ==
    /\ CommandNode_matchName(toUpper(baseName), child.shortName, child.longName)
    /\ IF CommandNode_hasParam(child)
       THEN IF hasSuffix THEN NodeParamConstraint_validate(child.paramDef.constraint, suffix)
            ELSE ~child.paramDef.constraint.required
       ELSE ~hasSuffix

\* findChild: the first child in map order that is accepted, or NullNode.
CommandNode_findChild(t, p, baseName, suffix, hasSuffix) ==
    LET keys == CommandNode_children(t, p)
        hits == {i \in 1..Len(keys) :
                    CommandNode_accepts(t[Append(p, keys[i])], baseName, suffix, hasSuffix)}
        first == CHOOSE i \in hits : \A j \in hits : i <= j
        child == Append(p, keys[first])
    IN  IF hits = {} THEN [node |-> NullNode, extractedValue |-> 0]
        ELSE [node |-> child,
              extractedValue |-> IF ~CommandNode_hasParam(t[child]) THEN 0
                                 ELSE IF hasSuffix THEN suffix
                                 ELSE t[child].paramDef.constraint.defaultValue]

\* ensurePath from the root: the tree after the walk and the node reached.
RECURSIVE CommandTree_ensurePathFrom(_, _, _)
CommandTree_ensurePathFrom(t, current, nodes) ==
    IF nodes = <<>> THEN [tree |-> t, node |-> current]
    ELSE LET pn == Head(nodes)
             child == Append(current, toUpper(pn.shortName))
             t1 == IF child \in DOMAIN t
                   THEN IF pn.isOptional THEN [t EXCEPT ![child].isOptional = TRUE] ELSE t
                   ELSE LET added == CommandNode_addChild(t, current, pn.shortName, pn.longName,
                                                          PatternNode_getParamDef(pn))
                        IN  [added EXCEPT ![child].isOptional = pn.isOptional]
         IN  CommandTree_ensurePathFrom(t1, child, Tail(nodes))

CommandTree_ensurePath(t, nodes) ==
    IF nodes = <<>> THEN [tree |-> t, node |-> NullNode]
    ELSE CommandTree_ensurePathFrom(t, Root, nodes)

CommandNode_setHandler(t, p, handler) == [t EXCEPT ![p].handler = handler]
CommandNode_setQueryHandler(t, p, handler) == [t EXCEPT ![p].queryHandler = handler]

\* Index (0-based) at which the trailing run of optional nodes starts.
findTrailingOptionalStart(nodes) ==
    LET n == Len(nodes)
    IN  CHOOSE s \in 0..n :
            /\ \A i \in (s + 1)..n : nodes[i].isOptional
            /\ (s = 0 \/ ~nodes[s].isOptional)


\* One round of the loop of setHandlersForOptionalChain: e is what ensurePath
\* returned for the prefix.
CommandTree_setHandlerAt(e, handler, isQuery) ==
    IF e.node = NullNode THEN e.tree
    ELSE IF isQuery THEN CommandNode_setQueryHandler(e.tree, e.node, handler)
    ELSE CommandNode_setHandler(e.tree, e.node, handler)

\* The loop of setHandlersForOptionalChain from index i on.
RECURSIVE CommandTree_setHandlersFrom(_, _, _, _, _)
CommandTree_setHandlersFrom(t, nodes, i, handler, isQuery) ==
    IF i > Len(nodes) THEN t
    ELSE IF i = 0
    THEN CommandTree_setHandlersFrom(t, nodes, i + 1, handler, isQuery)
    ELSE CommandTree_setHandlersFrom(
             CommandTree_setHandlerAt(CommandTree_ensurePath(t, SubSeq(nodes, 1, i)),
                                      handler, isQuery),
             nodes, i + 1, handler, isQuery)

\* Replaces the loop bounds of setHandlersForOptionalChain by the chain alone:
\* the handler is bound from the first optional node of the trailing run on.
CommandTree_setHandlersForOptionalChain_chainOnly(t, nodes, optionalStart, handler, isQuery) ==
    CommandTree_setHandlersFrom(t, nodes, optionalStart + 1, handler, isQuery)

CommandTree_setHandlersForOptionalChain(t, nodes, optionalStart, handler, isQuery) ==
    CommandTree_setHandlersFrom(t, nodes,
        IF optionalStart > 0 THEN optionalStart - 1 ELSE 0, handler, isQuery)

\* The registrations return the tree they leave and the leaf (NullNode on
\* failure).  Each is staged: the pattern is parsed, the path ensured (e), the
\* trailing optional run located (optionalStart), the handlers bound.
CommandTree_registerCommandBind(nodes, e, optionalStart, handler) ==
    IF optionalStart < Len(nodes)
    THEN [tree |-> CommandTree_setHandlersForOptionalChain(e.tree, nodes, optionalStart,
                                                           handler, FALSE),
          node |-> e.node]
    ELSE [tree |-> CommandNode_setHandler(e.tree, e.node, handler), node |-> e.node]

CommandTree_registerCommandParsed(t, pp, handler) ==
    IF ~pp.ok \/ pp.nodes = <<>> THEN [tree |-> t, node |-> NullNode]
    ELSE CommandTree_registerCommandBind(pp.nodes, CommandTree_ensurePath(t, pp.nodes),
                                         findTrailingOptionalStart(pp.nodes), handler)

CommandTree_registerCommand(t, pattern, handler) ==
    CommandTree_registerCommandParsed(t, PatternParser_parse(pattern), handler)

CommandTree_registerQueryBind(nodes, e, optionalStart, handler) ==
    IF optionalStart < Len(nodes)
    THEN [tree |-> CommandTree_setHandlersForOptionalChain(e.tree, nodes, optionalStart,
                                                           handler, TRUE),
          node |-> e.node]
    ELSE [tree |-> CommandNode_setQueryHandler(e.tree, e.node, handler), node |-> e.node]

CommandTree_registerQueryParsed(t, pp, handler) ==
    IF ~pp.ok \/ pp.nodes = <<>> THEN [tree |-> t, node |-> NullNode]
    ELSE CommandTree_registerQueryBind(pp.nodes, CommandTree_ensurePath(t, pp.nodes),
                                       findTrailingOptionalStart(pp.nodes), handler)

CommandTree_registerQuery(t, pattern, handler) ==
    CommandTree_registerQueryParsed(t,
        PatternParser_parse(IF pattern # "" /\ CharAt(pattern, Len(pattern) - 1) # "?"
                            THEN pattern \o "?" ELSE pattern),
        handler)

CommandTree_registerBothBind(nodes, e, optionalStart, setHandler, queryHandler) ==
    IF optionalStart < Len(nodes)
    THEN [tree |-> CommandTree_setHandlersForOptionalChain(
                      CommandTree_setHandlersForOptionalChain(e.tree, nodes, optionalStart,
                                                              setHandler, FALSE),
                      nodes, optionalStart, queryHandler, TRUE),
          node |-> e.node]
    ELSE [tree |-> CommandNode_setQueryHandler(
                      CommandNode_setHandler(e.tree, e.node, setHandler),
                      e.node, queryHandler),
          node |-> e.node]

CommandTree_registerBothParsed(t, pp, setHandler, queryHandler) ==
    IF ~pp.ok \/ pp.nodes = <<>> THEN [tree |-> t, node |-> NullNode]
    ELSE CommandTree_registerBothBind(pp.nodes, CommandTree_ensurePath(t, pp.nodes),
                                      findTrailingOptionalStart(pp.nodes),
                                      setHandler, queryHandler)

CommandTree_registerBoth(t, pattern, setHandler, queryHandler) ==
    CommandTree_registerBothParsed(t,
        PatternParser_parse(IF pattern # "" /\ CharAt(pattern, Len(pattern) - 1) = "?"
                            THEN Substr(pattern, 0, Len(pattern) - 1) ELSE pattern),
        setHandler, queryHandler)

CommandTree_normalizeCommonName(name) ==
    LET result == toUpper(name)
    IN  IF result = "" \/ CharAt(result, 0) # "*" THEN "*" \o result ELSE result

\* commonCommands_ is a function from normalized names to handlers.
CommandTree_registerCommonCommand(cc, name, handler) ==
    LET normalized == CommandTree_normalizeCommonName(name)
    IN  [x \in DOMAIN cc \cup {normalized} |-> IF x = normalized THEN handler ELSE cc[x]]

CommandTree_findCommonCommand(cc, name) ==
    LET normalized == CommandTree_normalizeCommonName(name)
    IN  IF normalized \in DOMAIN cc THEN cc[normalized] ELSE NullHandler

(***************************************************************************)
(* PathResolver (path_resolver.cpp).  dfsResolve shares the visited set    *)
(* and the result's error fields between all branches of one search; both  *)
(* are threaded through the recursion in the code's order.                 *)
(***************************************************************************)
MAX_RESOLVE_DEPTH == 32

PathNode_toString(pn) == IF pn.hasSuffix THEN pn.name \o ToString(pn.suffix) ELSE pn.name

ResolveResult_new ==
    [success |-> FALSE, node |-> NullNode, matchedPath |-> <<>>, consumedPath |-> <<>>,
     nodeParams |-> <<>>, isCommon |-> FALSE, commonHandler |-> NullHandler,
     errorCode |-> NO_ERROR, errorMessage |-> ""]

NodeParamEntry(paramName, nodeShortName, nodeLongName, value) ==
    [paramName |-> paramName, nodeShortName |-> nodeShortName,
     nodeLongName |-> nodeLongName, value |-> value]

PathResolver_buildCommonName(cmd) ==
    "*" \o (IF cmd.path # <<>> THEN toUpper(cmd.path[1].name) ELSE "")
        \o (IF cmd.isQuery THEN "?" ELSE "")

RECURSIVE PathResolver_dfsResolve(_, _, _, _, _, _, _, _, _)
RECURSIVE PathResolver_dfsEpsilon(_, _, _, _, _, _, _, _, _, _)

\* The failure dfsResolve records when neither branch succeeds.
PathResolver_undefinedHeader(o, v, pn) ==
    [ok |-> FALSE, visited |-> v,
     out |-> [o EXCEPT !.errorCode = UNDEFINED_HEADER,
                       !.errorMessage = "Undefined header near: " \o PathNode_toString(pn)]]

\* One round of the epsilon loop: r is what the search from the optional child
\* keys[k] returned.
PathResolver_dfsEpsilonNext(t, current, keys, k, path, index, nodeParams, matchedPath, consumedPath,
                            depth, r) ==
    IF r.ok THEN r
    ELSE PathResolver_dfsEpsilon(t, current, keys, k + 1, path, index, nodeParams, matchedPath,
                                 consumedPath, [out |-> r.out, visited |-> r.visited,
                                                depth |-> depth])

\* The epsilon loop over the children keys[k..]: the first optional child from
\* which the search succeeds ends it.  sd carries visited, the result and depth.
PathResolver_dfsEpsilon(t, current, keys, k, path, index, nodeParams, matchedPath, consumedPath, sd) ==
    IF k > Len(keys) THEN [ok |-> FALSE, out |-> sd.out, visited |-> sd.visited]
    ELSE IF ~t[Append(current, keys[k])].isOptional
    THEN PathResolver_dfsEpsilon(t, current, keys, k + 1, path, index, nodeParams,
                                 matchedPath, consumedPath, sd)
    ELSE PathResolver_dfsEpsilonNext(t, current, keys, k, path, index, nodeParams, matchedPath,
             consumedPath, sd.depth,
             PathResolver_dfsResolve(t, Append(current, keys[k]), path, index, nodeParams,
                                     Append(matchedPath, Append(current, keys[k])), consumedPath,
                                     [out |-> sd.out, visited |-> sd.visited], sd.depth + 1))

\* The end of the consume branch: cons is what the search from the matched
\* child returned.
PathResolver_dfsConsumeEnd(pn, cons) ==
    IF cons.ok THEN cons ELSE PathResolver_undefinedHeader(cons.out, cons.visited, pn)

\* The consume branch: found is what findChild returned for path[index], eps
\* what the epsilon loop left.
\* A consume branch that goes on from the child without recording it as consumed.
PathResolver_dfsConsume_unrecorded(t, path, index, nodeParams, matchedPath, consumedPath, depth, eps, found) ==
    IF found.node = NullNode
    THEN PathResolver_undefinedHeader(eps.out, eps.visited, path[index + 1])
    ELSE PathResolver_dfsConsumeEnd(path[index + 1],
             PathResolver_dfsResolve(t, found.node, path, index + 1, nodeParams,
                 Append(matchedPath, found.node), consumedPath,
                 [out |-> eps.out, visited |-> eps.visited], depth + 1))

PathResolver_dfsConsume(t, path, index, nodeParams, matchedPath, consumedPath, depth, eps, found) ==
    IF found.node = NullNode
    THEN PathResolver_undefinedHeader(eps.out, eps.visited, path[index + 1])
    ELSE PathResolver_dfsConsumeEnd(path[index + 1],
             PathResolver_dfsResolve(t, found.node, path, index + 1,
                 IF CommandNode_hasParam(t[found.node])
                 THEN Append(nodeParams,
                             NodeParamEntry(t[found.node].paramDef.name, t[found.node].shortName,
                                            t[found.node].longName, found.extractedValue))
                 ELSE nodeParams,
                 Append(matchedPath, found.node), Append(consumedPath, found.node),
                 [out |-> eps.out, visited |-> eps.visited], depth + 1))

\* After the epsilon loop (eps): its success ends the search, else consume.
PathResolver_dfsAfterEpsilon(t, current, path, index, nodeParams, matchedPath, consumedPath, depth,
                             eps) ==
    IF eps.ok THEN eps
    ELSE PathResolver_dfsConsume(t, path, index, nodeParams, matchedPath, consumedPath, depth, eps,
             CommandNode_findChild(t, current, path[index + 1].name, path[index + 1].suffix,
                                   path[index + 1].hasSuffix))

PathResolver_dfsResolve(t, current, path, index, nodeParams, matchedPath, consumedPath, s, depth) ==
    IF depth > MAX_RESOLVE_DEPTH THEN [ok |-> FALSE, out |-> s.out, visited |-> s.visited]
    ELSE IF <<current, index>> \in s.visited
    THEN [ok |-> FALSE, out |-> s.out, visited |-> s.visited]
    ELSE IF index >= Len(path)
    THEN [ok |-> TRUE, visited |-> s.visited \cup {<<current, index>>},
          out |-> [s.out EXCEPT !.node = current, !.matchedPath = matchedPath,
                                !.consumedPath = consumedPath, !.nodeParams = nodeParams]]
    ELSE PathResolver_dfsAfterEpsilon(t, current, path, index, nodeParams, matchedPath,
             consumedPath, depth,
             PathResolver_dfsEpsilon(t, current, CommandNode_children(t, current), 1, path,
                 index, nodeParams, matchedPath, consumedPath,
                 [out |-> s.out, visited |-> s.visited \cup {<<current, index>>},
                  depth |-> depth]))

\* The end of resolve for a tree command: r is what the search returned.
PathResolver_resolveEnd(r) ==
    IF ~r.ok
    THEN IF r.out.errorCode = NO_ERROR
         THEN [r.out EXCEPT !.errorCode = UNDEFINED_HEADER, !.errorMessage = "Undefined header"]
         ELSE r.out
    ELSE [r.out EXCEPT !.success = TRUE]

\* resolve for a common command: h is what findCommonCommand returned.
PathResolver_resolveCommon(commonName, h) ==
    IF h = NullHandler
    THEN [ResolveResult_new EXCEPT !.isCommon = TRUE, !.errorCode = UNDEFINED_HEADER,
                                   !.errorMessage = "Unknown common command: " \o commonName]
    ELSE [ResolveResult_new EXCEPT !.isCommon = TRUE, !.commonHandler = h, !.success = TRUE]

PathResolver_resolve(t, cc, cmd, ctxNode) ==
    IF cmd.path = <<>>
    THEN [ResolveResult_new EXCEPT !.errorCode = SYNTAX_ERROR,
                                   !.errorMessage = "Empty command header"]
    ELSE IF cmd.isCommon
    THEN PathResolver_resolveCommon(PathResolver_buildCommonName(cmd),
             CommandTree_findCommonCommand(cc, PathResolver_buildCommonName(cmd)))
    ELSE PathResolver_resolveEnd(
             PathResolver_dfsResolve(t,
                 IF cmd.isAbsolute THEN Root ELSE IF ctxNode = NullNode THEN Root ELSE ctxNode,
                 cmd.path, 0, <<>>, <<>>, <<>>, [out |-> ResolveResult_new, visited |-> {}], 0))

(***************************************************************************)
(* Handlers.  A CommandHandler is named by a string; HandlerCall gives     *)
(* what calling it on a Context does: the Context left behind, the code    *)
(* returned, and pushed, the codes of the pushError calls it made.         *)
(***************************************************************************)
\* ErrorEntry::toScpiString: <code>,"<message>" with inner quotes doubled.
RECURSIVE EscapeQuotes(_, _)
EscapeQuotes(message, i) ==
    IF i >= Len(message) THEN ""
    ELSE (IF CharAt(message, i) = "\"" THEN "\"\"" ELSE CharAt(message, i))
         \o EscapeQuotes(message, i + 1)

ErrorEntry_toScpiString(e) ==
    ToString(e.code) \o ",\"" \o EscapeQuotes(e.message, 0) \o "\""

HandlerResult(c, rc, pushed) == [c |-> c, rc |-> rc, pushed |-> pushed]

requireOneNumericParam(c) ==
    IF Len(c.params) < 1
    THEN HandlerResult(Context_pushStandardError(c, MISSING_PARAMETER),
                       MISSING_PARAMETER, <<MISSING_PARAMETER>>)
    ELSE IF Len(c.params) > 1
    THEN HandlerResult(Context_pushStandardError(c, PARAMETER_NOT_ALLOWED),
                       PARAMETER_NOT_ALLOWED, <<PARAMETER_NOT_ALLOWED>>)
    ELSE IF ~Parameter_isNumeric(c.params[1])
    THEN HandlerResult(Context_pushStandardError(c, DATA_TYPE_ERROR),
                       DATA_TYPE_ERROR, <<DATA_TYPE_ERROR>>)
    ELSE HandlerResult(c, 0, <<>>)

\* The handlers registerIeee488CommonDefaults installs, by command name.
Ieee488Handler(h, c, undef) ==
    CASE h = "*CLS" -> HandlerResult(Context_clearStatus(c), 0, <<>>)
      [] h = "*IDN?" ->
            HandlerResult(Context_result(c, Lit("SCPI-Parser,VirtualInstrument,SN000000,0.1")),
                          0, <<>>)
      [] h = "*RST" -> HandlerResult(c, 0, <<>>)
      [] h = "*OPC" ->
            HandlerResult([c EXCEPT !.status = StatusRegister_setOPC(@)], 0, <<>>)
      [] h = "*OPC?" -> HandlerResult(Context_resultInt(c, 1), 0, <<>>)
      [] h = "*ESR?" ->
            LET r == StatusRegister_readAndClearESR(c.status)
            IN  HandlerResult(Context_resultInt([c EXCEPT !.status = r.st], r.v), 0, <<>>)
      [] h = "*ESE" ->
            LET r == requireOneNumericParam(c)
            IN  IF r.rc # 0 THEN r
                ELSE HandlerResult([c EXCEPT !.status.ese =
                                        Parameter_toInt32(c.params[1], 0, undef) % 256], 0, <<>>)
      [] h = "*ESE?" -> HandlerResult(Context_resultInt(c, c.status.ese), 0, <<>>)
      [] h = "*SRE" ->
            LET r == requireOneNumericParam(c)
            IN  IF r.rc # 0 THEN r
                ELSE HandlerResult([c EXCEPT !.status.sre =
                                        Parameter_toInt32(c.params[1], 0, undef) % 256], 0, <<>>)
      [] h = "*SRE?" -> HandlerResult(Context_resultInt(c, c.status.sre), 0, <<>>)
      [] h = "*STB?" -> HandlerResult(Context_resultInt(c, Context_computeSTB(c)), 0, <<>>)

Ieee488Names ==
    <<"*CLS", "*IDN?", "*RST", "*OPC", "*OPC?", "*ESR?", "*ESE", "*ESE?", "*SRE", "*SRE?",
      "*STB?">>

RECURSIVE JoinScpi(_, _)
JoinScpi(all, i) ==
    IF i > Len(all) THEN ""
    ELSE (IF i > 1 THEN "," ELSE "") \o ErrorEntry_toScpiString(all[i]) \o JoinScpi(all, i + 1)

\* The handlers registerDefaultSystemCommands installs, by pattern.
SystemHandler(h, c) ==
    CASE h \in {":SYSTem:ERRor?", ":SYSTem:ERRor:NEXT?"} ->
            LET r == ErrorQueue_pop(c.errorQueue)
            IN  HandlerResult(Context_result([c EXCEPT !.errorQueue = r.q],
                                             Lit(ErrorEntry_toScpiString(r.entry))), 0, <<>>)
      [] h = ":SYSTem:ERRor:COUNt?" ->
            HandlerResult(Context_resultInt(c, ErrorQueue_count(c.errorQueue)), 0, <<>>)
      [] h = ":SYSTem:ERRor:CLEar" ->
            HandlerResult([c EXCEPT !.errorQueue = ErrorQueue_clear(@)], 0, <<>>)
      [] h = ":SYSTem:ERRor:ALL?" ->
            LET r == ErrorQueue_popAll(c.errorQueue)
                c1 == [c EXCEPT !.errorQueue = r.q]
            IN  IF r.result = <<>>
                THEN HandlerResult(Context_result(c1, Lit("0,\"No error\"")), 0, <<>>)
                ELSE HandlerResult(Context_result(c1, Lit(JoinScpi(r.result, 1))), 0, <<>>)

SystemPatterns ==
    <<":SYSTem:ERRor?", ":SYSTem:ERRor:NEXT?", ":SYSTem:ERRor:COUNt?", ":SYSTem:ERRor:CLEar",
      ":SYSTem:ERRor:ALL?">>

\* Instrument handlers, as the repository's tests register them.
InstrumentHandler(h, c) ==
    CASE h = "set" -> HandlerResult(c, 0, <<>>)
      [] h = "query1" -> HandlerResult(Context_resultInt(c, 1), 0, <<>>)
      [] h = "failRange" -> HandlerResult(c, DATA_OUT_OF_RANGE, <<>>)
      [] h = "upload" ->
            IF ~(Len(c.params) >= 1 /\ c.params[1].type = "BLOCK_DATA")
            THEN HandlerResult(Context_pushStandardError(c, DATA_TYPE_ERROR),
                               DATA_TYPE_ERROR, <<DATA_TYPE_ERROR>>)
            ELSE HandlerResult(c, 0, <<>>)
      [] h = "readBlock" -> HandlerResult(Context_resultBlock(c, <<65, 66, 67>>), 0, <<>>)
      [] h = "readIndef" ->
            HandlerResult(Context_resultIndefiniteBlock(c, <<1, 2, 3>>), 0, <<>>)

InstrumentHandlers == {"set", "query1", "failRange", "upload", "readBlock", "readIndef"}

\* The codes a handler returns outright: success, codes on both sides of the
\* ends of the SCPI range -499..-100, a device-defined code and the ends of int.
ReturnCodes == {0, -1, -99, -100, -499, -500, 7, INT32_MAX, -INT32_MAX - 1}

ReturnHandler(code) == "return(" \o ToString(code) \o ")"

IsReturnHandler(h) == \E code \in ReturnCodes : h = ReturnHandler(code)

\* A handler is any function of the Context: these report an error and
\* return success, return a code outside the SCPI ranges, return a
\* device-defined positive code, report an error and return a code outside
\* the SCPI ranges, or return one of ReturnCodes.
UserHandler(h, c) ==
    CASE h = "pushOnly" ->
            HandlerResult(Context_pushStandardError(c, ILLEGAL_PARAMETER_VALUE), 0,
                          <<ILLEGAL_PARAMETER_VALUE>>)
      [] h = "returnMinus1" -> HandlerResult(c, -1, <<>>)
      [] h = "returnPlus5" -> HandlerResult(c, 5, <<>>)
      [] h = "pushAndReturnMinus1" ->
            HandlerResult(Context_pushStandardError(c, ILLEGAL_PARAMETER_VALUE), -1,
                          <<ILLEGAL_PARAMETER_VALUE>>)
      [] IsReturnHandler(h) ->
            HandlerResult(c, CHOOSE code \in ReturnCodes : h = ReturnHandler(code), <<>>)

UserHandlers == {"pushOnly", "returnMinus1", "returnPlus5"}

InSeq(x, s) == \E i \in 1..Len(s) : s[i] = x

\* int rc = h(ctx); undef is what an undefined conversion in the handler yields.
HandlerCall(h, c, undef) ==
    IF InSeq(h, Ieee488Names) THEN Ieee488Handler(h, c, undef)
    ELSE IF InSeq(h, SystemPatterns) THEN SystemHandler(h, c)
    ELSE IF h \in InstrumentHandlers THEN InstrumentHandler(h, c)
    ELSE UserHandler(h, c)

(***************************************************************************)
(* Parser (parser.cpp).  The registration calls build the tree and the     *)
(* common-command map; executeResolved and updatePathContextAfterResolve   *)
(* are the two halves of one loop iteration of executeAll.                 *)
(***************************************************************************)
MAX_INPUT_SIZE == MAX_BLOCK_DATA_SIZE + MAX_COMMAND_LENGTH

RECURSIVE Parser_registerDefaultCommonCommandsFrom(_, _)
Parser_registerDefaultCommonCommandsFrom(cc, i) ==
    IF i > Len(Ieee488Names) THEN cc
    ELSE Parser_registerDefaultCommonCommandsFrom(
             CommandTree_registerCommonCommand(cc, Ieee488Names[i], Ieee488Names[i]), i + 1)

Parser_registerDefaultCommonCommands(cc) == Parser_registerDefaultCommonCommandsFrom(cc, 1)

Parser_registerDefaultSystemCommands(t) ==
    LET t1 == CommandTree_registerQuery(t, ":SYSTem:ERRor?", ":SYSTem:ERRor?").tree
        t2 == CommandTree_registerQuery(t1, ":SYSTem:ERRor:NEXT?", ":SYSTem:ERRor:NEXT?").tree
        t3 == CommandTree_registerQuery(t2, ":SYSTem:ERRor:COUNt?", ":SYSTem:ERRor:COUNt?").tree
        t4 == CommandTree_registerCommand(t3, ":SYSTem:ERRor:CLEar", ":SYSTem:ERRor:CLEar").tree
    IN  CommandTree_registerQuery(t4, ":SYSTem:ERRor:ALL?", ":SYSTem:ERRor:ALL?").tree

\* The instrument of the dispatcher runs: the commands the tests register,
\* and one command for each of the three user handlers.
InstrumentCommands ==
    <<[query |-> FALSE, pattern |-> ":SOURce:FREQuency", handler |-> "set"],
      [query |-> FALSE, pattern |-> ":SOURce:AMPLitude", handler |-> "set"],
      [query |-> FALSE, pattern |-> ":OUTPut[:STATe]", handler |-> "set"],
      [query |-> FALSE, pattern |-> ":ONLY:SET", handler |-> "set"],
      [query |-> TRUE, pattern |-> ":ONLY:QRY?", handler |-> "query1"],
      [query |-> FALSE, pattern |-> ":FAIL:RANGe", handler |-> "failRange"],
      [query |-> FALSE, pattern |-> ":DATA:UPLoad", handler |-> "upload"],
      [query |-> TRUE, pattern |-> ":DATA:READ?", handler |-> "readBlock"],
      [query |-> TRUE, pattern |-> ":DATA:INDEF?", handler |-> "readIndef"],
      [query |-> FALSE, pattern |-> ":USER:PUSH", handler |-> "pushOnly"],
      [query |-> FALSE, pattern |-> ":USER:NEG", handler |-> "returnMinus1"],
      [query |-> FALSE, pattern |-> ":USER:POS", handler |-> "returnPlus5"]>>

\* The registration calls of the instrument's set-up, in order; a pattern
\* that fails to register leaves the tree as it was.
RECURSIVE Parser_registerAll(_, _, _)
Parser_registerAll(t, regs, i) ==
    IF i > Len(regs) THEN t
    ELSE LET r == IF regs[i].query
                  THEN CommandTree_registerQuery(t, regs[i].pattern, regs[i].handler)
                  ELSE CommandTree_registerCommand(t, regs[i].pattern, regs[i].handler)
         IN  IF r.node = NullNode THEN Parser_registerAll(t, regs, i + 1)
             ELSE Parser_registerAll(r.tree, regs, i + 1)

InstrumentTree ==
    Parser_registerAll(Parser_registerDefaultSystemCommands(CommandTree_new),
                       InstrumentCommands, 1)

InstrumentCommon == Parser_registerDefaultCommonCommands(<<>>)

\* A normalization that maps only the codes between -99 and -1.
Parser_normalizeHandlerReturn_above(rc) ==
    IF rc < 0 /\ rc > -100 THEN EXECUTION_ERROR ELSE rc

Parser_normalizeHandlerReturn(rc) ==
    IF rc = 0 THEN 0
    ELSE IF (rc <= -100 /\ rc >= -499) \/ rc > 0 THEN rc
    ELSE EXECUTION_ERROR

\* An update that resets the PathContext to root unless two nodes were consumed.
Parser_updatePathContextAfterResolve_toRoot(current, cmd, r) ==
    IF Len(r.consumedPath) >= 2 THEN r.consumedPath[Len(r.consumedPath) - 1] ELSE NullNode

\* The node updatePathContextAfterResolve writes, given its startNode.
Parser_newPathContext(startNode, r) ==
    LET n == Len(r.consumedPath)
    IN  IF n >= 2 THEN r.consumedPath[n - 1]
        ELSE IF n = 1 THEN (IF startNode = Root THEN NullNode ELSE startNode)
        ELSE (IF startNode = Root THEN NullNode ELSE startNode)

\* The new current node of the PathContext (NullNode stands for root).
Parser_updatePathContextAfterResolve(current, cmd, r) ==
    Parser_newPathContext(IF cmd.isAbsolute THEN Root
                          ELSE IF current # NullNode THEN current ELSE Root, r)

\* A dispatcher that never queues a handler's return code.
Parser_queueHandlerError_never(c, rc) == c

\* What the dispatcher itself queues after the handler returned rc.
Parser_queueHandlerError(c, rc) ==
    IF rc # 0 /\ ~Context_hasTransientError(c)
    THEN IF rc <= -100 /\ rc >= -499 THEN Context_pushStandardError(c, rc)
         ELSE IF rc > 0 THEN Context_pushError(c, rc, "Device-defined error")
         ELSE Context_pushStandardError(c, EXECUTION_ERROR)
    ELSE c

\* executeResolved: c and rc are its effect and result; invoked, raw, pushed
\* and queued record the handler that ran, what it returned and pushed, and
\* the codes the dispatcher queued on its own.
ExecResult(c, rc, invoked, raw, pushed, queued) ==
    [c |-> c, rc |-> rc, invoked |-> invoked, raw |-> raw, pushed |-> pushed,
     queued |-> queued]

\* executeResolved is staged in the order of its statements: the Context is
\* prepared (c0), the handler selected (h) and called (hr), its return value
\* normalized (rc) and, if the handler pushed nothing, queued (c1).
Parser_executeResolvedEnd(h, hr, rc, c1) ==
    ExecResult(c1, rc, h, hr.rc, hr.pushed,
               IF c1 # hr.c THEN <<c1.transientErrorCode>> ELSE <<>>)

Parser_executeResolvedReturn(h, hr, rc) ==
    Parser_executeResolvedEnd(h, hr, rc, Parser_queueHandlerError(hr.c, rc))

Parser_executeResolvedCall(h, hr) ==
    Parser_executeResolvedReturn(h, hr, Parser_normalizeHandlerReturn(hr.rc))

\* A handler selection that reports every missing handler as a command error.
Parser_executeResolvedHandler_commandErrorOnly(cmd, c0, h, undef) ==
    IF h = NullHandler
    THEN ExecResult(Context_pushStandardError(c0, COMMAND_ERROR), COMMAND_ERROR,
                    NullHandler, 0, <<>>, <<COMMAND_ERROR>>)
    ELSE Parser_executeResolvedCall(h, HandlerCall(h, c0, undef))

Parser_executeResolvedHandler(cmd, c0, h, undef) ==
    IF h = NullHandler
    THEN IF cmd.isQuery
         THEN ExecResult(Context_pushStandardError(c0, QUERY_ERROR), QUERY_ERROR,
                         NullHandler, 0, <<>>, <<QUERY_ERROR>>)
         ELSE ExecResult(Context_pushStandardError(c0, COMMAND_ERROR), COMMAND_ERROR,
                         NullHandler, 0, <<>>, <<COMMAND_ERROR>>)
    ELSE Parser_executeResolvedCall(h, HandlerCall(h, c0, undef))

Parser_executeResolvedPrepared(t, cmd, r, c0, undef) ==
    IF ~r.isCommon /\ r.node = NullNode
    THEN ExecResult(Context_pushStandardError(c0, UNDEFINED_HEADER), UNDEFINED_HEADER,
                    NullHandler, 0, <<>>, <<UNDEFINED_HEADER>>)
    ELSE Parser_executeResolvedHandler(cmd, c0,
             IF r.isCommon THEN r.commonHandler
             ELSE IF cmd.isQuery THEN t[r.node].queryHandler
             ELSE t[r.node].handler, undef)

Parser_executeResolved(t, cmd, r, c, undef) ==
    Parser_executeResolvedPrepared(t, cmd, r,
        [Context_resetCommandState(c) EXCEPT !.isQuery = cmd.isQuery,
                                             !.params = cmd.params,
                                             !.nodeParams = r.nodeParams], undef)

\* The values an undefined conversion of one of cmd's parameters can yield
\* in a handler; one value when every conversion is defined.
Parameter_undefinedInt32(p) == Parameter_toInt32(p, 0, 0) # Parameter_toInt32(p, 0, INT32_MAX)

UndefinedOutcomes(cmd) ==
    IF \E i \in 1..Len(cmd.params) : Parameter_undefinedInt32(cmd.params[i])
    THEN UndefinedInt32 ELSE {0}

(***************************************************************************)
(* The dispatcher.  One executeAll call runs from "idle" through the       *)
(* positions of its loop back to "idle": "pending" is the head of an       *)
(* iteration (the query-interrupted check), "resolve" the resolver call,   *)
(* "execute" the call of executeResolved and the PathContext update, and    *)
(* "return" the return statement.  Between calls the host may read a       *)
(* response.  obs keeps, for the running call, every pushError with who    *)
(* made it and where, the handlers invoked, and a record it of the current *)
(* loop iteration.                                                         *)
(***************************************************************************)
Context_setBinaryOutputCallback(c) == [c EXCEPT !.binaryOutputCallback = TRUE]

Context_setOutputCallback(c) == [c EXCEPT !.outputCallback = TRUE]

\* The program messages sent to the instrument.
Messages ==
    {"*IDN?", "*OPC?", "*ESE", "*ESE 32", "*CLS", ":DATA:INDEF?", ":DATA:UPL 1",
     ":FAIL:RANG 123", ":USER:PUSH", ":USER:NEG", ":USER:POS", ":OUTP ON", ":ONLY:SET?",
     ":SYST:ERR?", "*IDN?;*OPC?", ":BAD;*CLS", "AMPL 5",
     ":SOUR:FREQ 1000;AMPL 5", ":SOUR:FREQ 1;BAD;AMPL 2.5", ":SOUR:FREQ 1;*XYZ;AMPL 2",
     ":SOUR:FREQ 1;:X (@3:1)", "*IDN?;:X $", ":X (@1:100001)", ":X (@1.5)", ":SOUR:;*IDN?",
     "*", ":ONLY:QRY 1", "*ESR?", "*ESE INF", ":X \"open", ":X 1e999", ":X (@1:5000000000)",
     ":X (@2147483646:2147483647)",
     ":OUTP \"a;b\"", ":BAD;:USER:NEG;:SYST:ERR?;:SYST:ERR:NEXT?",
     ":SOUR:FREQ 1MHz;AMPL 2.5V;:SYST:ERR?"}

MaxEmptyReads == 1     \* reads of an empty buffer in one run

NoIteration ==
    [idx |-> 0, pending |-> "none", ctxBefore |-> NullNode, start |-> NullNode,
     resolved |-> FALSE, done |-> FALSE, invoked |-> NullHandler, raw |-> 0,
     pushed |-> <<>>, queued |-> <<>>, queueAtExec |-> <<>>, emitted |-> <<>>]

NoCall ==
    [calls |-> 0, input |-> "", sizeOk |-> TRUE, splitOk |-> TRUE, splitMessage |-> "",
     parsed |-> 0, pushes |-> <<>>, invoked |-> <<>>, failedAt |-> 0,
     failedCtx |-> NullNode, emptyReads |-> 0, it |-> NoIteration]

Push(by, code, phase, cmd) == [by |-> by, code |-> code, phase |-> phase, cmd |-> cmd]

RECURSIVE HandlerPushes(_, _, _)
HandlerPushes(codes, i, cmd) ==
    IF i > Len(codes) THEN <<>>
    ELSE <<Push("handler", codes[i], "execute", cmd)>> \o HandlerPushes(codes, i + 1, cmd)

RECURSIVE DispatcherPushes(_, _, _)
DispatcherPushes(codes, i, cmd) ==
    IF i > Len(codes) THEN <<>>
    ELSE <<Push("dispatcher", codes[i], "execute", cmd)>> \o DispatcherPushes(codes, i + 1, cmd)

Init ==
    /\ ctx \in {Context_new(n) : n \in 1..MaxCap}
               \cup {Context_setOutputCallback(Context_new(n)) : n \in 1..MaxCap}
    /\ tree = InstrumentTree
    /\ commonCommands = InstrumentCommon
    /\ autoResetContext = TRUE
    /\ pathContext = NullNode
    /\ pc = "idle"
    /\ cmds = <<>> /\ idx = 0 /\ lastRc = 0 /\ ret = 0 /\ rr = <<>>
    /\ obs = NoCall

\* Where the loop goes after the iteration of command i.
LoopNext(i, n) == IF i < n THEN "pending" ELSE "return"

\* A program message: its text, input.length() and what the splitter makes
\* of it.
Message(input, sp) == [input |-> input, length |-> Len(input), sp |-> sp]

\* A message of MAX_INPUT_SIZE + 1 characters, kept as its first characters
\* and its length.  The splitter never sees it.
TooLongMessage ==
    [input |-> "*IDN?          ", length |-> MAX_INPUT_SIZE + 1,
     sp |-> [ok |-> TRUE, commands |-> <<>>, errorCode |-> NO_ERROR, errorMessage |-> "",
             errorPosition |-> 0]]

\* Every message of a set with each result the splitter can have on it.
SplitsOf(messages) ==
    UNION {{Message(m, sp) : sp \in CommandSplitter_splits(m)} : m \in messages}

SplitMessages == SplitsOf(Messages) \cup {TooLongMessage}

\* executeAll returning before its loop: the input is over MAX_INPUT_SIZE, or
\* the splitter rejects it.
ExecuteAll_reject(m) ==
    LET sp == m.sp
        code == IF sp.errorCode = 0 THEN SYNTAX_ERROR ELSE sp.errorCode
    IN  /\ pc = "idle" /\ obs.calls < MaxCalls
        /\ m.length > MAX_INPUT_SIZE \/ (~sp.ok /\ CommandSplitter_returns(sp))
        /\ IF m.length > MAX_INPUT_SIZE
           THEN /\ ctx' = Context_pushStandardErrorWithInfo(ctx, OUT_OF_MEMORY,
                                                            "Command string too long")
                /\ ret' = OUT_OF_MEMORY
                /\ obs' = [NoCall EXCEPT !.emptyReads = obs.emptyReads,
                             !.calls = obs.calls + 1, !.input = m.input, !.sizeOk = FALSE,
                             !.pushes = <<Push("dispatcher", OUT_OF_MEMORY, "size", 0)>>]
                /\ UNCHANGED pathContext
           ELSE /\ pathContext' = IF autoResetContext THEN NullNode ELSE pathContext
                /\ ctx' = Context_pushStandardErrorWithInfo(ctx, code, sp.errorMessage)
                /\ ret' = code
                /\ obs' = [NoCall EXCEPT !.emptyReads = obs.emptyReads,
                             !.calls = obs.calls + 1, !.input = m.input, !.splitOk = FALSE,
                             !.splitMessage = sp.errorMessage,
                             !.parsed = Len(sp.commands),
                             !.pushes = <<Push("dispatcher", code, "split", 0)>>]
        /\ UNCHANGED <<tree, commonCommands, autoResetContext, pc, cmds, idx, lastRc, rr>>

\* executeAll entering its loop over the commands sp parsed from input.
ExecuteAll_loop(input, sp) ==
    /\ pathContext' = IF autoResetContext THEN NullNode ELSE pathContext
    /\ cmds' = sp.commands
    /\ idx' = 1
    /\ lastRc' = 0
    /\ rr' = <<>>
    /\ pc' = LoopNext(0, Len(sp.commands))
    /\ obs' = [NoCall EXCEPT !.emptyReads = obs.emptyReads, !.calls = obs.calls + 1, !.input = input, !.splitOk = sp.ok,
                             !.parsed = Len(sp.commands)]
    /\ UNCHANGED <<ctx, tree, commonCommands, autoResetContext, ret>>

\* An executeAll that runs the commands parsed before a splitter failure.
ExecuteAll_begin_ignoresSplitError(m) ==
    /\ pc = "idle" /\ obs.calls < MaxCalls
    /\ m.length <= MAX_INPUT_SIZE
    /\ CommandSplitter_returns(m.sp)
    /\ ExecuteAll_loop(m.input, m.sp)

\* executeAll up to its loop, when the splitter accepts the input.
ExecuteAll_begin(m) ==
    /\ pc = "idle" /\ obs.calls < MaxCalls
    /\ m.length <= MAX_INPUT_SIZE
    /\ m.sp.ok
    /\ ExecuteAll_loop(m.input, m.sp)

\* executeAll on a message the splitter does not return from: the call stays
\* in split.
ExecuteAll_noReturn(m) ==
    /\ pc = "idle" /\ obs.calls < MaxCalls
    /\ m.length <= MAX_INPUT_SIZE
    /\ ~CommandSplitter_returns(m.sp)
    /\ pathContext' = IF autoResetContext THEN NullNode ELSE pathContext
    /\ pc' = "split"
    /\ obs' = [NoCall EXCEPT !.emptyReads = obs.emptyReads, !.calls = obs.calls + 1, !.input = m.input]
    /\ UNCHANGED <<ctx, tree, commonCommands, autoResetContext, cmds, idx, lastRc, ret, rr>>

\* execute: its size check and its reset are the ones executeAll, which it
\* ends with, makes again.
Parser_execute(m) ==
    IF m.length > MAX_INPUT_SIZE THEN ExecuteAll_reject(m)
    ELSE ExecuteAll_reject(m) \/ ExecuteAll_begin(m) \/ ExecuteAll_noReturn(m)

\* setAutoResetContext(v), called between two messages.
Parser_setAutoResetContext(v) ==
    /\ pc = "idle"
    /\ autoResetContext' = v
    /\ UNCHANGED <<ctx, tree, commonCommands, pathContext, pc, cmds, idx, lastRc, ret, rr, obs>>

\* resetContext(), called between two messages.
Parser_resetContext ==
    /\ pc = "idle"
    /\ pathContext' = NullNode
    /\ UNCHANGED <<ctx, tree, commonCommands, autoResetContext, pc, cmds, idx, lastRc, ret, rr,
                   obs>>

\* The head of a loop iteration: the query-interrupted model.
CheckPending ==
    LET pending == Context_hasPendingResponse(ctx)
        indef == Context_lastResponseWasIndefinite(ctx)
        code == IF indef THEN QUERY_UNTERMINATED_INDEF ELSE QUERY_INTERRUPTED
    IN  /\ pc = "pending"
        /\ ctx' = IF pending THEN Context_clearResponses(Context_pushStandardError(ctx, code))
                  ELSE ctx
        /\ pc' = "resolve"
        /\ obs' = [obs EXCEPT
                     !.it = [NoIteration EXCEPT
                               !.idx = idx,
                               !.pending = IF ~pending THEN "none"
                                           ELSE IF ctx.responses[Len(ctx.responses)].indefinite
                                           THEN "indefinite" ELSE "definite",
                               !.ctxBefore = pathContext],
                     !.pushes = IF pending THEN Append(@, Push("dispatcher", code, "pending", idx))
                                ELSE @]
        /\ UNCHANGED <<tree, commonCommands, autoResetContext, pathContext, cmds, idx, lastRc, ret, rr>>

\* resolver.resolve returned r with success.
ResolveOkWith(r) ==
    /\ r.success
    /\ rr' = r
    /\ pc' = "execute"
    /\ obs' = [obs EXCEPT !.it.resolved = TRUE, !.it.start = pathContext]
    /\ UNCHANGED <<ctx, tree, commonCommands, autoResetContext, pathContext, cmds, idx, lastRc, ret>>

\* resolver.resolve succeeds.
ResolveOk ==
    /\ pc = "resolve"
    /\ ResolveOkWith(PathResolver_resolve(tree, commonCommands, cmds[idx], pathContext))

\* resolver.resolve returned r without success: code is queued, the rest of
\* the iteration is skipped and the loop continues; after is the PathContext
\* the iteration leaves.
ResolveFailWith(r, code, after) ==
    /\ ~r.success
    /\ ctx' = Context_pushStandardErrorWithInfo(ctx, code, r.errorMessage)
    /\ lastRc' = code
    /\ rr' = r
    /\ idx' = idx + 1
    /\ pc' = LoopNext(idx, Len(cmds))
    /\ pathContext' = after
    /\ obs' = [obs EXCEPT !.it.done = TRUE, !.it.start = pathContext,
                          !.failedAt = idx, !.failedCtx = obs.it.ctxBefore,
                          !.pushes = Append(@, Push("dispatcher", code, "resolve", idx))]
    /\ UNCHANGED <<tree, commonCommands, autoResetContext, cmds, ret>>

ResolveFailCode(r, after) ==
    ResolveFailWith(r, IF r.errorCode # 0 THEN r.errorCode ELSE UNDEFINED_HEADER, after)

\* A failed resolve that also resets the PathContext to root.
ResolveFail_resetsContext ==
    /\ pc = "resolve"
    /\ ResolveFailCode(PathResolver_resolve(tree, commonCommands, cmds[idx], pathContext),
                       NullNode)

\* resolver.resolve fails; the PathContext is left as it was.
ResolveFail ==
    /\ pc = "resolve"
    /\ ResolveFailCode(PathResolver_resolve(tree, commonCommands, cmds[idx], pathContext),
                       pathContext)

\* executeResolved returned e for cmd.
ExecuteWith(cmd, e) ==
    /\ ctx' = e.c
    /\ lastRc' = IF e.rc # 0 THEN e.rc ELSE lastRc
    /\ pathContext' = Parser_updatePathContextAfterResolve(pathContext, cmd, rr)
    /\ idx' = idx + 1
    /\ pc' = LoopNext(idx, Len(cmds))
    /\ obs' = [obs EXCEPT
                 !.it.done = TRUE, !.it.invoked = e.invoked, !.it.raw = e.raw,
                 !.it.pushed = e.pushed, !.it.queued = e.queued,
                 !.it.queueAtExec = ctx.errorQueue,
                 !.it.emitted = SubSeq(e.c.responses, Len(ctx.responses) + 1,
                                       Len(e.c.responses)),
                 !.invoked = IF e.invoked # NullHandler THEN Append(@, e.invoked) ELSE @,
                 !.pushes = @ \o HandlerPushes(e.pushed, 1, idx)
                              \o DispatcherPushes(e.queued, 1, idx)]
    /\ UNCHANGED <<tree, commonCommands, autoResetContext, cmds, ret, rr>>

\* executeResolved and updatePathContextAfterResolve.
Execute ==
    /\ pc = "execute"
    /\ \E undef \in UndefinedOutcomes(cmds[idx]) :
           ExecuteWith(cmds[idx], Parser_executeResolved(tree, cmds[idx], rr, ctx, undef))

\* return lastRc; the locals of the call are gone.
Return ==
    /\ pc = "return"
    /\ ret' = lastRc
    /\ pc' = "idle"
    /\ cmds' = <<>> /\ idx' = 0 /\ lastRc' = 0 /\ rr' = <<>>
    /\ UNCHANGED <<ctx, tree, commonCommands, autoResetContext, pathContext, obs>>

\* Between calls the host reads the oldest response of the buffer, or finds
\* the buffer empty, which queues -420.  obs.emptyReads counts the reads of
\* an empty buffer.
HostRead ==
    /\ pc = "idle"
    /\ Context_hasPendingResponse(ctx) \/ obs.emptyReads < MaxEmptyReads
    /\ ctx' = Context_popTextResponse(ctx).c
    /\ obs' = [obs EXCEPT !.emptyReads = IF Context_hasPendingResponse(ctx) THEN @ ELSE @ + 1]
    /\ UNCHANGED <<tree, commonCommands, autoResetContext, pathContext, pc, cmds, idx, lastRc, ret, rr>>

Dispatch == CheckPending \/ ResolveOk \/ ResolveFail \/ Execute \/ Return

Next ==
    \/ \E m \in SplitMessages : ExecuteAll_reject(m)
    \/ \E m \in SplitMessages : ExecuteAll_begin(m)
    \/ \E m \in SplitMessages : ExecuteAll_noReturn(m)
    \/ \E m \in SplitMessages : Parser_execute(m)
    \/ \E v \in BOOLEAN : Parser_setAutoResetContext(v)
    \/ Parser_resetContext
    \/ CheckPending
    \/ ResolveOk
    \/ ResolveFail
    \/ Execute
    \/ Return
    \/ HostRead

Spec == Init /\ [][Next]_vars

\* Every step of a running call changes pc, no other action does so while
\* the call runs, and a step is possible at every position of the loop.  At
\* split the thread of the call is inside a split that does not return: it
\* runs there, and the call has no step to its next position.
ProgramCounters == {"idle", "split", "pending", "resolve", "execute", "return"}
Advance == pc \notin {"idle", "split"} /\ pc' \in ProgramCounters /\ pc' # pc

\* The dispatcher never stops in the middle of a call: handlers return and
\* the thread of the call keeps running.  Fairness of the steps of the call
\* is stated as fairness of Advance.
FairSpec == Spec /\ WF_pc(Advance)

(***************************************************************************)
(* Properties of the dispatcher.  AfterCall holds between calls once a     *)
(* call has been made; AfterCommand holds when the loop has just finished  *)
(* the iteration of a command.                                             *)
(***************************************************************************)
AfterCall == pc = "idle" /\ obs.calls > 0
WellFormed == obs.sizeOk /\ obs.splitOk
AfterCommand == pc \in {"pending", "return"} /\ obs.it.done
Executed == AfterCommand /\ obs.it.resolved
Codes(queue) == [i \in 1..Len(queue) |-> queue[i].code]

\* C1, its first half: executeAll returns on every well-formed program
\* message; a call that has started comes back to its caller.
C1_Returns == pc # "idle" ~> pc = "idle"

\* C1, its second half as stated: after a call on a well-formed message the
\* return code is non-zero exactly when an error was pushed during the call.
C1_Original ==
    AfterCall /\ WellFormed => (ret # 0 <=> obs.pushes # <<>>)

\* C1, what holds of the return code: after a call on a well-formed message
\* a non-zero return code implies that an error was pushed during the call;
\* when the return code is zero, every error pushed during the call is the
\* dispatcher's -410/-440 for a pending response or was pushed by a handler.
C1_ReturnCode ==
    AfterCall /\ WellFormed =>
        /\ ret # 0 => obs.pushes # <<>>
        /\ ret = 0 =>
             \A i \in 1..Len(obs.pushes) :
                \/ /\ obs.pushes[i].by = "dispatcher"
                   /\ obs.pushes[i].phase = "pending"
                   /\ obs.pushes[i].code \in {QUERY_INTERRUPTED, QUERY_UNTERMINATED_INDEF}
                \/ obs.pushes[i].by = "handler"

\* A call returned 0 although the dispatcher queued -410 during it.
C1_Witness ==
    /\ AfterCall /\ WellFormed /\ ret = 0
    /\ \E i \in 1..Len(obs.pushes) :
          obs.pushes[i].phase = "pending" /\ obs.pushes[i].code = QUERY_INTERRUPTED

\* The pushes of the call made for command i.
PushesOf(i) == SelectSeq(obs.pushes, LAMBDA p : p.cmd = i)

\* C2: in buffered mode, when a command starts while a response is pending,
\* the dispatcher has queued -440 (pending response indefinite) or -410
\* (otherwise) and emptied the buffer before the command is resolved or
\* executed; the command is then executed and the buffer holds exactly what
\* it emitted.
C2_QueryInterrupted ==
    ~ctx.outputCallback /\ obs.it.pending # "none" =>
        LET code == IF obs.it.pending = "indefinite" THEN QUERY_UNTERMINATED_INDEF
                    ELSE QUERY_INTERRUPTED
        IN  /\ pc = "resolve" =>
                /\ ctx.responses = <<>>
                /\ PushesOf(idx) = <<Push("dispatcher", code, "pending", idx)>>
                /\ ctx.transientErrorCode = code
                /\ ErrorQueue_lastErrorCode(ctx.errorQueue) \in {code, QUEUE_OVERFLOW}
                /\ ~obs.it.resolved /\ obs.it.invoked = NullHandler
            /\ pc = "execute" => ctx.responses = <<>>
            /\ AfterCommand => Head(PushesOf(obs.it.idx)).phase = "pending"
            /\ Executed =>
                /\ ctx.responses = obs.it.emitted
                /\ obs.it.invoked # NullHandler
                       => obs.invoked[Len(obs.invoked)] = obs.it.invoked

\* A query ran while an indefinite response was pending; its own response is
\* the one in the buffer.
C2_Witness ==
    /\ Executed /\ ~ctx.outputCallback /\ obs.it.pending = "indefinite"
    /\ obs.it.emitted # <<>> /\ ctx.responses = obs.it.emitted
    /\ \E i \in 1..Len(obs.pushes) : obs.pushes[i].code = QUERY_UNTERMINATED_INDEF

\* C3: after a command that resolved, the PathContext is the penultimate node
\* of the consumed path when at least two nodes were consumed, the context the
\* command started from when a relative command consumed one node, and root
\* when an absolute command consumed one node.
C3_PathContext ==
    Executed /\ ~rr.isCommon =>
        LET n == Len(rr.consumedPath)
            cmd == cmds[obs.it.idx]
        IN  /\ n >= 2 => pathContext = rr.consumedPath[n - 1]
            /\ n = 1 /\ ~cmd.isAbsolute => pathContext = obs.it.ctxBefore
            /\ n = 1 /\ cmd.isAbsolute => pathContext = NullNode

\* A relative command consumed one node below a context that is not root.
C3_Witness ==
    /\ Executed /\ ~rr.isCommon
    /\ Len(rr.consumedPath) = 1 /\ ~cmds[obs.it.idx].isAbsolute
    /\ obs.it.ctxBefore # NullNode /\ pathContext = obs.it.ctxBefore

\* C6: when a command fails to resolve, the dispatcher queues the failure
\* code and remembers it, leaves the PathContext as it was before the command
\* and goes on to the next command; a relative command that follows is
\* resolved from the context established before the failed one.
C6_ResolveFailure ==
    /\ AfterCommand /\ ~obs.it.resolved =>
          /\ pathContext = obs.it.ctxBefore
          /\ lastRc = (IF rr.errorCode # 0 THEN rr.errorCode ELSE UNDEFINED_HEADER)
          /\ obs.pushes[Len(obs.pushes)] = Push("dispatcher", lastRc, "resolve", obs.it.idx)
          /\ ctx.transientErrorCode = lastRc
          /\ obs.it.invoked = NullHandler
          /\ idx = obs.it.idx + 1
          /\ pc = "pending" <=> obs.it.idx < Len(cmds)
    /\ obs.it.resolved /\ obs.failedAt > 0 /\ obs.it.idx = obs.failedAt + 1 =>
          obs.it.start = obs.failedCtx

\* A relative command ran right after a failed one, from a context that is
\* not root.
C6_Witness ==
    /\ Executed /\ obs.failedAt > 0 /\ obs.it.idx = obs.failedAt + 1
    /\ ~cmds[obs.it.idx].isAbsolute /\ ~cmds[obs.it.idx].isCommon
    /\ obs.failedCtx # NullNode /\ obs.it.start = obs.failedCtx
    /\ obs.it.invoked # NullHandler

\* The queue after pushing the codes one after the other.
RECURSIVE PushAll(_, _, _)
PushAll(q, codes, i) ==
    IF i > Len(codes) THEN q
    ELSE PushAll(ErrorQueue_push(q, ErrorEntry(codes[i], "")), codes, i + 1)

\* C7: for one command whose handler returned a non-zero code: if the handler
\* pushed errors, the queue gained only those and the dispatcher queued
\* nothing; if it pushed none, the dispatcher queued exactly one entry with
\* the normalized code.
C7_NoDoubleQueue ==
    Executed /\ obs.it.invoked # NullHandler /\ obs.it.raw # 0 =>
        LET rc == Parser_normalizeHandlerReturn(obs.it.raw)
        IN  /\ obs.it.pushed # <<>> =>
                /\ obs.it.queued = <<>>
                /\ Codes(ctx.errorQueue.queue)
                     = Codes(PushAll(obs.it.queueAtExec, obs.it.pushed, 1).queue)
            /\ obs.it.pushed = <<>> =>
                /\ obs.it.queued = <<rc>>
                /\ Codes(ctx.errorQueue.queue)
                     = Codes(PushAll(obs.it.queueAtExec, <<rc>>, 1).queue)
            /\ lastRc = rc

\* A handler pushed an error and returned its code; the queue had room and
\* gained that single entry.
C7_Witness ==
    /\ Executed /\ obs.it.raw # 0 /\ obs.it.pushed # <<>> /\ obs.it.queued = <<>>
    /\ Len(ctx.errorQueue.queue) = Len(obs.it.queueAtExec.queue) + Len(obs.it.pushed)

\* What the splitter can make of the input of the call.
SplitsOfInput == {m.sp : m \in {x \in SplitMessages : x.input = obs.input}}

\* C9: when the splitter rejects a program message, executeAll queues exactly
\* one error, returns its code and invokes no handler, also when commands
\* that parse precede the fault; on its return the code is the transient
\* error and, unless the queue was full, the last error of the queue.
C9_FailFast ==
    /\ [](AfterCall /\ obs.sizeOk /\ ~obs.splitOk =>
            /\ Len(obs.pushes) = 1
            /\ obs.pushes[1].by = "dispatcher" /\ obs.pushes[1].phase = "split"
            /\ ret = obs.pushes[1].code /\ ret # 0
            /\ obs.invoked = <<>>)
    /\ [][obs'.calls # obs.calls /\ pc' = "idle" /\ obs'.sizeOk /\ ~obs'.splitOk =>
            /\ ctx'.transientErrorCode = ret'
            /\ ErrorQueue_lastErrorCode(ctx'.errorQueue) \in {ret', QUEUE_OVERFLOW}]_vars

\* A message was rejected after the splitter had parsed a command of it.
C9_Witness ==
    /\ AfterCall /\ ~obs.splitOk /\ obs.parsed > 0
    /\ Len(obs.pushes) = 1 /\ obs.invoked = <<>> /\ ret = obs.pushes[1].code

\* C10 as stated: the code of every splitter rejection lies in -100..-199.
C10_Original ==
    AfterCall /\ obs.sizeOk /\ ~obs.splitOk => isCommandError(ret)

ReversedRangeMessages == {"Invalid channel range: end < start"}
ExpansionMessages ==
    {"Channel range too large", "Channel range expansion too large", "Too many channels"}

\* C10: the code of a splitter rejection, which executeAll queues and
\* returns, lies in -100..-199, except that a reversed channel range gives
\* -224 and a channel list expanding beyond the cap gives -223.
C10_SplitterCodes ==
    AfterCall /\ obs.sizeOk /\ ~obs.splitOk =>
        /\ \E sp \in SplitsOfInput :
               ~sp.ok /\ ret = sp.errorCode /\ obs.splitMessage = sp.errorMessage
        /\ obs.pushes = <<Push("dispatcher", ret, "split", 0)>>
        /\ IF obs.splitMessage \in ReversedRangeMessages THEN ret = ILLEGAL_PARAMETER_VALUE
           ELSE IF obs.splitMessage \in ExpansionMessages THEN ret = TOO_MUCH_DATA
           ELSE isCommandError(ret)

\* A reversed channel range was rejected with -224.
C10_Witness ==
    /\ AfterCall /\ ~obs.splitOk /\ obs.splitMessage \in ReversedRangeMessages
    /\ ret = ILLEGAL_PARAMETER_VALUE

\* The command whose iteration has just finished, and the handler slot of the
\* node it resolved to that a command of its kind needs.
LastCommand == cmds[idx - 1]
NeededHandler ==
    IF rr.isCommon THEN rr.commonHandler
    ELSE IF LastCommand.isQuery THEN tree[rr.node].queryHandler
    ELSE tree[rr.node].handler

\* C11: when a command resolves to a tree node that lacks the handler it
\* needs, no handler is invoked, and exactly one error is pushed and is the
\* code returned for the command: -400 for a query, -100 for a set command.
C11_MissingHandler ==
    Executed /\ ~rr.isCommon /\ NeededHandler = NullHandler =>
        LET code == IF LastCommand.isQuery THEN QUERY_ERROR ELSE COMMAND_ERROR
        IN  /\ obs.it.invoked = NullHandler
            /\ obs.it.pushed = <<>>
            /\ obs.it.queued = <<code>>
            /\ ctx.errorQueue
                 = ErrorQueue_push(obs.it.queueAtExec,
                                   ErrorEntry(code, getStandardMessage(code)))
            /\ ctx.transientErrorCode = code
            /\ lastRc = code

\* A set command was sent to a node that has only a query handler, with room
\* in the queue: -100 is the entry the queue gained.
C11_Witness ==
    /\ Executed /\ ~rr.isCommon /\ ~LastCommand.isQuery
    /\ tree[rr.node].handler = NullHandler /\ tree[rr.node].queryHandler # NullHandler
    /\ lastRc = COMMAND_ERROR
    /\ Codes(ctx.errorQueue.queue) = Codes(obs.it.queueAtExec.queue) \o <<COMMAND_ERROR>>

\* The ESR bit of the class of an error code, -1 when the code has no class.
ClassBit(code) ==
    IF code \in -199..-100 THEN 5
    ELSE IF code \in -299..-200 THEN 4
    ELSE IF code \in -399..-300 THEN 3
    ELSE IF code \in -499..-400 THEN 2
    ELSE -1

\* The pushError calls of one step, and whether the step runs *ESR? or *CLS.
StepPushes ==
    IF obs'.emptyReads # obs.emptyReads THEN <<Push("host", QUERY_UNTERMINATED, "read", 0)>>
    ELSE IF obs'.calls # obs.calls THEN obs'.pushes
    ELSE SubSeq(obs'.pushes, Len(obs.pushes) + 1, Len(obs'.pushes))
ClearsESR == pc = "execute" /\ rr.isCommon /\ rr.commonHandler \in {"*ESR?", "*CLS"}
StepCodes == [i \in 1..Len(StepPushes) |-> StepPushes[i].code]

\* C12: a step that runs *ESR? or *CLS leaves ESR zero; in every other step
\* each of the bits 2..5 of ESR is set afterwards exactly if it was set before
\* or the step pushed an error of the bit's class (a code outside -499..-100
\* raises no bit), and the other bits stay set; outside handler execution the
\* step's pushes are what the error queue gains.
C12_EsrBits ==
    [][ /\ ClearsESR => ctx'.status.esr = 0
        /\ ~ClearsESR =>
              /\ \A b \in 2..5 :
                    TestBit(ctx'.status.esr, b)
                      <=> \/ TestBit(ctx.status.esr, b)
                          \/ \E i \in 1..Len(StepPushes) : ClassBit(StepPushes[i].code) = b
              /\ \A b \in {0, 1, 6, 7} :
                    TestBit(ctx.status.esr, b) => TestBit(ctx'.status.esr, b)
        /\ pc # "execute" =>
              Codes(ctx'.errorQueue.queue)
                = Codes(PushAll(ctx.errorQueue, StepCodes, 1).queue) ]_vars

\* A call that pushed nothing has ended with the QYE bit still set from the
\* call before it.
C12_Witness ==
    /\ AfterCall /\ obs.calls = 2 /\ obs.pushes = <<>>
    /\ TestBit(ctx.status.esr, 2)

\* What *CLS leaves of the Context before: ESR zero, no error, no response,
\* no transient error, ESE and SRE as they were.
Cleared(before, after) ==
    /\ after.status.esr = 0
    /\ after.errorQueue.queue = <<>> /\ ErrorQueue_empty(after.errorQueue)
    /\ after.responses = <<>> /\ ~Context_hasPendingResponse(after)
    /\ after.transientErrorCode = 0 /\ after.transientErrorMessage = ""
    /\ after.status.ese = before.status.ese
    /\ after.status.sre = before.status.sre

\* C13: clearStatus, applied to any Context the dispatcher can leave, sets ESR
\* to 0, empties the error queue and the response buffer, clears the
\* transient error and keeps ESE and SRE; and a step of the dispatcher that
\* executes *CLS leaves the Context so, with an empty error queue.
C13_ClearStatus ==
    /\ [](Cleared(ctx, Context_clearStatus(ctx)))
    /\ [][ (pc = "execute" /\ rr.isCommon /\ rr.commonHandler = "*CLS")
              => Cleared(ctx, ctx') /\ lastRc' = lastRc ]_vars

\* *CLS ran with errors in the queue, ESR bits raised and ESE set, and left
\* the queue empty and ESE as it was.
C13_Witness ==
    /\ Executed /\ obs.it.invoked = "*CLS"
    /\ obs.it.queueAtExec.queue # <<>>
    /\ ctx.errorQueue.queue = <<>> /\ ctx.status.esr = 0 /\ ctx.status.ese = 32

\* The text the command just executed handed to result(): the last item of
\* the buffer, or in callback mode what the callback received last.
LastReply ==
    IF ctx.outputCallback THEN ctx.textOut[Len(ctx.textOut)]
    ELSE ctx.responses[Len(ctx.responses)].text

ErrorQueries == {":SYSTem:ERRor?", ":SYSTem:ERRor:NEXT?"}

\* C14: :SYSTem:ERRor? and :SYSTem:ERRor:NEXT? return 0 and push nothing;
\* with errors queued they remove exactly the oldest entry and reply
\* <code>,"<message>" of it, so successive queries report the errors in the
\* order they were queued; with the queue empty they reply 0,"No error" and
\* leave the queue empty.
C14_ErrorQueryFifo ==
    Executed /\ obs.it.invoked \in ErrorQueries =>
        LET q == obs.it.queueAtExec.queue
        IN  /\ obs.it.raw = 0 /\ obs.it.pushed = <<>> /\ obs.it.queued = <<>>
            /\ LastReply.raw = <<>>
            /\ IF q = <<>>
               THEN /\ ctx.errorQueue.queue = <<>>
                    /\ LastReply.lit = "0,\"No error\""
               ELSE /\ ctx.errorQueue.queue = Tail(q)
                    /\ LastReply.lit
                         = ToString(q[1].code) \o ",\"" \o q[1].message \o "\""

\* Two errors were queued and two queries followed: the second query found
\* the second error at the head and removed it.
C14_Witness ==
    /\ Executed /\ obs.it.invoked = ":SYSTem:ERRor:NEXT?"
    /\ ctx.outputCallback /\ Len(ctx.textOut) = 2
    /\ Codes(obs.it.queueAtExec.queue) = <<EXECUTION_ERROR>>
    /\ [i \in 1..Len(obs.pushes) |-> obs.pushes[i].code] = <<UNDEFINED_HEADER, EXECUTION_ERROR>>
    /\ ctx.errorQueue.queue = <<>>

\* The first concrete scenario: three commands, the second relative.
Scenario1 == ":SOUR:FREQ 1MHz;AMPL 2.5V;:SYST:ERR?"
AfterScenario1Command(k) == obs.input = Scenario1 /\ AfterCommand /\ obs.it.idx = k

\* C15 as stated: in the scenario the PathContext is at SOURce after the
\* first and after the second command and at root after the third.
C15_Original ==
    /\ AfterScenario1Command(1) => pathContext = <<"SOUR">>
    /\ AfterScenario1Command(2) => pathContext = <<"SOUR">>
    /\ AfterScenario1Command(3) => pathContext \in {NullNode, Root}

\* The PathContext after each command of the scenario.
C15_AfterCommands ==
    /\ AfterScenario1Command(1) => pathContext = <<"SOUR">>
    /\ AfterScenario1Command(2) => pathContext = <<"SOUR">>
    /\ AfterScenario1Command(3) => pathContext = <<"SYST">>

\* C15: in the scenario the PathContext is at SOURce after the first and
\* after the second command, and at SYSTem, the penultimate node of
\* :SYST:ERR?, after the third; the call returns 0 and leaves it there.
C15_Scenario ==
    /\ []C15_AfterCommands
    /\ [][Return /\ obs.input = Scenario1 => pathContext' = <<"SYST">> /\ ret' = 0]_vars

\* The scenario ran to its end: the three handlers were invoked and the
\* PathContext is at SYSTem.
C15_Witness ==
    /\ AfterScenario1Command(3) /\ pathContext = <<"SYST">>
    /\ obs.invoked = <<"set", "set", ":SYSTem:ERRor?">>
    /\ tree[pathContext].longName = "SYSTem"

(***************************************************************************)
(* Registration and resolution on their own: up to MaxRegs registrations   *)
(* into an empty tree, and between them the resolution, from root, of a    *)
(* header made from a registered pattern by keeping its nodes up to the    *)
(* trailing optional chain and any of the nodes of the chain.  obs.regs    *)
(* records the registrations with the leaf each returned, obs.probe the    *)
(* header last resolved; rr is what the resolver returned for it.          *)
(***************************************************************************)
TreePatterns ==
    {":MEASure:VOLTage[:DC]", ":SENSe[:VOLTage][:DC]", "[:SENSe]:VOLTage", ":VOLTage[:DC]",
     ":MEASure:VOLTage", ":MEASure:CURRent[:DC]"}

\* The handlers of the k-th registration.
SetHandlerOf(k) == "set" \o ToString(k)
QueryHandlerOf(k) == "query" \o ToString(k)

NoProbe == [reg |-> 0, keep |-> {}, header |-> ""]

treeUnchanged == UNCHANGED <<ctx, commonCommands, autoResetContext, pathContext, cmds, idx, lastRc, ret>>

InitTree ==
    /\ tree = CommandTree_new
    /\ ctx = <<>> /\ commonCommands = <<>> /\ autoResetContext = TRUE /\ pathContext = NullNode
    /\ cmds = <<>> /\ idx = 0 /\ lastRc = 0 /\ ret = 0 /\ rr = <<>>
    /\ pc = "register"
    /\ obs = [regs |-> <<>>, probe |-> NoProbe]

\* The registration made r of the tree.
Registered(pattern, kind, r) ==
    /\ tree' = r.tree
    /\ rr' = <<>>
    /\ pc' = "register"
    /\ obs' = [regs |-> Append(obs.regs, [pattern |-> pattern, kind |-> kind, node |-> r.node,
                                         nodes |-> PatternParser_parse(pattern).nodes]),
               probe |-> NoProbe]
    /\ treeUnchanged

RegisterCommand(pattern) ==
    /\ Len(obs.regs) < MaxRegs
    /\ Registered(pattern, "command",
                  CommandTree_registerCommand(tree, pattern, SetHandlerOf(Len(obs.regs) + 1)))

RegisterQuery(pattern) ==
    /\ Len(obs.regs) < MaxRegs
    /\ Registered(pattern, "query",
                  CommandTree_registerQuery(tree, pattern, QueryHandlerOf(Len(obs.regs) + 1)))

RegisterBoth(pattern) ==
    /\ Len(obs.regs) < MaxRegs
    /\ Registered(pattern, "both",
                  CommandTree_registerBoth(tree, pattern, SetHandlerOf(Len(obs.regs) + 1),
                                           QueryHandlerOf(Len(obs.regs) + 1)))

\* The positions (1-based) of the trailing optional chain of a pattern.
TrailingChain(nodes) == (findTrailingOptionalStart(nodes) + 1)..Len(nodes)

\* The header that keeps the nodes before the chain and those of keep, each
\* by its long or its short mnemonic.
RECURSIVE HeaderFrom(_, _, _, _)
HeaderFrom(nodes, keep, long, i) ==
    IF i > Len(nodes) THEN ""
    ELSE (IF i \in keep \/ i \notin TrailingChain(nodes)
          THEN ":" \o (IF long THEN nodes[i].longName ELSE nodes[i].shortName)
          ELSE "")
         \o HeaderFrom(nodes, keep, long, i + 1)

\* resolver.resolve of a header, from root.
ResolveHeader(k, keep, header) ==
    /\ header # ""
    /\ \E sp \in CommandSplitter_splits(header) :
           rr' = PathResolver_resolve(tree, commonCommands, sp.commands[1], NullNode)
    /\ pc' = "resolved"
    /\ obs' = [obs EXCEPT !.probe = [reg |-> k, keep |-> keep, header |-> header]]
    /\ UNCHANGED tree
    /\ treeUnchanged

Resolve(k, keep, long) ==
    /\ k \in 1..Len(obs.regs)
    /\ obs.regs[k].node # NullNode
    /\ keep \subseteq TrailingChain(obs.regs[k].nodes)
    /\ ResolveHeader(k, keep, HeaderFrom(obs.regs[k].nodes, keep, long, 1))

NextTree ==
    \/ \E pattern \in TreePatterns : RegisterCommand(pattern)
    \/ \E pattern \in TreePatterns : RegisterQuery(pattern)
    \/ \E pattern \in TreePatterns : RegisterBoth(pattern)
    \/ \E k \in 1..MaxRegs, keep \in SUBSET (1..3), long \in BOOLEAN : Resolve(k, keep, long)

SpecTree == InitTree /\ [][NextTree]_vars

\* The tree node reached by the first i nodes of a pattern.
PrefixNode(nodes, i) == [j \in 1..i |-> nodes[j].shortName]

HandlerPair(node) == <<tree[node].handler, tree[node].queryHandler>>
Probed == obs.regs[obs.probe.reg]

\* C8 as stated: a header that keeps any of the nodes of the trailing
\* optional chain of a registered pattern resolves to a node bound to the
\* same handler pair as the pattern's full path.
C8_Original ==
    pc = "resolved" =>
        /\ rr.success
        /\ HandlerPair(rr.node) = HandlerPair(Probed.node)

\* The short mnemonics of the header that keeps the nodes of keep: the
\* positions kept, in order, and the names at them.
KeptPositions(nodes, keep) == {i \in 1..Len(nodes) : i \in keep \/ i \notin TrailingChain(nodes)}
NthOf(S, j) == CHOOSE p \in S : Cardinality({q \in S : q < p}) = j - 1
KeptNames(nodes, keep) ==
    [j \in 1..Cardinality(KeptPositions(nodes, keep)) |->
        nodes[NthOf(KeptPositions(nodes, keep), j)].shortName]

\* The nodes of the tree a header of these mnemonics can end at: the walk
\* from root consumes one mnemonic per node kept and passes the other nodes
\* of the path by an epsilon move, which optional nodes alone allow; the
\* node it ends at is one it consumed (path_resolver.cpp:90-133).
Reaching(names) ==
    {key \in DOMAIN tree :
        \E S \in SUBSET (1..Len(key)) :
            /\ Cardinality(S) = Len(names) /\ Len(key) \in S
            /\ \A j \in 1..Len(names) : key[NthOf(S, j)] = names[j]
            /\ \A p \in (1..Len(key)) \ S : tree[SubSeq(key, 1, p)].isOptional}

\* The nodes of a pattern's path that its headers end at: the one before
\* the trailing optional chain and those of the chain.
ChainNodes(nodes) ==
    {PrefixNode(nodes, i) : i \in {j \in 1..Len(nodes) : j >= findTrailingOptionalStart(nodes)}}

\* The handlers held by node key were set by registrations of this pattern.
HeldFrom(pattern, key) ==
    /\ tree[key].handler \in
           {NullHandler} \cup {SetHandlerOf(i) : i \in {j \in 1..Len(obs.regs) : obs.regs[j].pattern = pattern}}
    /\ tree[key].queryHandler \in
           {NullHandler} \cup {QueryHandlerOf(i) : i \in {j \in 1..Len(obs.regs) : obs.regs[j].pattern = pattern}}

\* The probed pattern's own nodes hold no handler of another pattern, and
\* the probed header can end at a node of the pattern's own path only.
OwnChain == \A key \in ChainNodes(Probed.nodes) : HeldFrom(Probed.pattern, key)
OwnPath == Reaching(KeptNames(Probed.nodes, obs.probe.keep)) \subseteq ChainNodes(Probed.nodes)

\* C8: for a pattern registered (as command, as query or as both) among
\* other patterns, every header that keeps any of the nodes of its trailing
\* optional chain resolves to a node bound to the same handler pair as the
\* pattern's full path, and that pair is not empty, provided that no
\* registration of another pattern has left a handler on the pattern's
\* nodes from the one before the chain to the leaf, and that no other path
\* of the tree matches the header through optional nodes.
C8_OptionalChain ==
    pc = "resolved" /\ OwnChain /\ OwnPath =>
        /\ rr.success
        /\ HandlerPair(rr.node) = HandlerPair(Probed.node)
        /\ HandlerPair(rr.node) # <<NullHandler, NullHandler>>

\* With the query :MEASure:VOLTage[:DC] and then :MEASure:CURRent[:DC] for
\* both in the tree, :MEAS:VOLT (the chain omitted) resolved to MEAS:VOLT,
\* which holds the query handler of the leaf MEAS:VOLT:DC.
C8_Witness ==
    /\ pc = "resolved" /\ Len(obs.regs) = 2
    /\ obs.regs[1].pattern = ":MEASure:VOLTage[:DC]" /\ obs.regs[1].kind = "query"
    /\ obs.regs[2].pattern = ":MEASure:CURRent[:DC]" /\ obs.regs[2].kind = "both"
    /\ obs.probe.reg = 1 /\ obs.probe.header = ":MEAS:VOLT" /\ obs.probe.keep = {}
    /\ OwnChain /\ OwnPath
    /\ rr.success /\ rr.node = <<"MEAS", "VOLT">> /\ Probed.node = <<"MEAS", "VOLT", "DC">>
    /\ HandlerPair(rr.node) = <<NullHandler, QueryHandlerOf(1)>>

\* The number of nodes of a pattern up to its last non-optional node.
LastRequired(nodes) ==
    IF \A i \in 1..Len(nodes) : nodes[i].isOptional THEN 0
    ELSE CHOOSE i \in 1..Len(nodes) :
            /\ ~nodes[i].isOptional
            /\ \A j \in (i + 1)..Len(nodes) : nodes[j].isOptional

\* The nodes the claim lets a registration bind: the prefixes that end at
\* the last non-optional node or after it.
ChainPrefixes(nodes) ==
    {PrefixNode(nodes, i) :
        i \in (IF LastRequired(nodes) = 0 THEN 1 ELSE LastRequired(nodes))..Len(nodes)}

\* Node key holds a handler in the slot of a registration of this kind.
BoundFor(kind, key) ==
    /\ kind \in {"command", "both"} => tree[key].handler # NullHandler
    /\ kind \in {"query", "both"} => tree[key].queryHandler # NullHandler

UnboundFor(key) ==
    tree[key].handler = NullHandler /\ tree[key].queryHandler = NullHandler

\* C22: after one registration into an empty tree, the handler is bound to
\* exactly the prefixes of the pattern's path that end at the last
\* non-optional node or at a node after it, and to the leaf only when the
\* pattern has no trailing optional nodes; no other node holds a handler.
C22_ChainBinding ==
    (pc = "register" /\ Len(obs.regs) = 1 /\ obs.regs[1].node # NullNode) =>
        \A key \in DOMAIN tree :
            IF key \in ChainPrefixes(obs.regs[1].nodes)
            THEN BoundFor(obs.regs[1].kind, key)
            ELSE UnboundFor(key)

(***************************************************************************)
(* The error queue of a fresh Context: any sequence of pushStandardError   *)
(* on the Context and of pop, popAll, clear, setMaxSize and                *)
(* resetOverflowCount on its queue.                                        *)
(* obs records the non-zero pushes, the popped entries, and whether the    *)
(* run is still a run of pushes followed by pops; everDropped says that a  *)
(* push was dropped since the queue was last empty, dropped that moreover  *)
(* no push has been accepted and nothing was truncated since.              *)
(***************************************************************************)
PushCodes == {NO_ERROR, UNDEFINED_HEADER, DATA_OUT_OF_RANGE, QUEUE_OVERFLOW}

parserIdle == /\ tree = <<>> /\ commonCommands = <<>> /\ autoResetContext = TRUE
              /\ pathContext = <<>>
              /\ cmds = <<>> /\ idx = 0 /\ lastRc = 0 /\ ret = 0 /\ rr = <<>>

parserUnchanged == UNCHANGED <<tree, commonCommands, autoResetContext, pathContext, pc, cmds, idx, lastRc, ret, rr>>

InitQueue ==
    /\ ctx \in {Context_new(n) : n \in 0..MaxCap}
    /\ parserIdle
    /\ pc = "queue"
    /\ obs = [pushed |-> <<>>, popped |-> <<>>, phase |-> "push", nPush |-> 0,
              dropped |-> FALSE, everDropped |-> FALSE, lastPop |-> NO_ERROR_ENTRY]

QPush(code) ==
    LET q == ctx.errorQueue
        full == Len(q.queue) >= q.maxSize
        e == ErrorEntry(code, getStandardMessage(code))
    IN  /\ obs.nPush < MaxPushes
        /\ ctx' = Context_pushStandardError(ctx, code)
        /\ obs' = [obs EXCEPT !.nPush = @ + 1,
                              !.pushed = IF code = NO_ERROR THEN @
                                         ELSE IF obs.phase = "push" THEN Append(@, e)
                                         ELSE <<>>,
                              !.popped = IF code = NO_ERROR \/ obs.phase = "push"
                                         THEN @ ELSE <<>>,
                              !.phase = IF code = NO_ERROR \/ @ = "push" THEN @ ELSE "mixed",
                              !.dropped = IF code = NO_ERROR THEN @ ELSE full,
                              !.everDropped = IF code # NO_ERROR /\ full THEN TRUE ELSE @]
        /\ parserUnchanged

QPop ==
    LET r == ErrorQueue_pop(ctx.errorQueue)
    IN  /\ ctx' = [ctx EXCEPT !.errorQueue = r.q]
        /\ obs' = [obs EXCEPT !.lastPop = r.entry,
                              !.popped = IF ctx.errorQueue.queue # <<>> /\ obs.phase # "mixed"
                                         THEN Append(@, r.entry) ELSE @,
                              !.phase = IF @ = "push" THEN "pop" ELSE @,
                              !.dropped = IF r.q.queue = <<>> THEN FALSE ELSE @,
                              !.everDropped = IF r.q.queue = <<>> THEN FALSE ELSE @]
        /\ parserUnchanged

QPopAll ==
    LET r == ErrorQueue_popAll(ctx.errorQueue)
    IN  /\ ctx' = [ctx EXCEPT !.errorQueue = r.q]
        /\ obs' = [obs EXCEPT !.phase = "mixed", !.pushed = <<>>, !.popped = <<>>,
                              !.dropped = FALSE, !.everDropped = FALSE]
        /\ parserUnchanged

QClear ==
    /\ ctx' = [ctx EXCEPT !.errorQueue = ErrorQueue_clear(@)]
    /\ obs' = [obs EXCEPT !.phase = "mixed", !.pushed = <<>>, !.popped = <<>>,
                          !.dropped = FALSE, !.everDropped = FALSE]
    /\ parserUnchanged

\* setMaxSize clamps a size below 1 to 1 and then pops entries off the back
\* while the queue is longer than that; dropped ends when it popped one.
QSetMaxSize(size) ==
    LET q == ErrorQueue_setMaxSize(ctx.errorQueue, size)
    IN  /\ ctx' = [ctx EXCEPT !.errorQueue = q]
        /\ obs' = [obs EXCEPT !.phase = "mixed", !.pushed = <<>>, !.popped = <<>>,
                              !.dropped = IF Len(q.queue) < Len(ctx.errorQueue.queue)
                                          THEN FALSE ELSE @]
        /\ parserUnchanged

QResetOverflowCount ==
    /\ ctx' = [ctx EXCEPT !.errorQueue = ErrorQueue_resetOverflowCount(@)]
    /\ UNCHANGED obs
    /\ parserUnchanged

NextQueue ==
    \/ \E code \in PushCodes : QPush(code)
    \/ QPop
    \/ QPopAll
    \/ QClear
    \/ \E size \in 0..MaxCap : QSetMaxSize(size)
    \/ QResetOverflowCount

SpecQueue == InitQueue /\ [][NextQueue]_vars

QueueOf(c) == c.errorQueue.queue
CapOf(c) == c.errorQueue.maxSize
TailCode(c) == ErrorQueue_lastErrorCode(c.errorQueue)

\* The first n elements of two sequences agree.
SamePrefix(a, b, n) == \A i \in 1..n : i <= Len(a) /\ i <= Len(b) /\ a[i] = b[i]

Min(a, b) == IF a < b THEN a ELSE b

\* C4 as stated: after N >= capacity pushes (no pop in between) the queue holds
\* capacity entries, its last entry is -350 and its first capacity-1 entries,
\* also when popped, are the oldest pushed errors in order; N == capacity included.
C4_Original ==
    (obs.phase = "push" /\ Len(obs.pushed) >= CapOf(ctx))
        => /\ ErrorQueue_count(ctx.errorQueue) = CapOf(ctx)
           /\ TailCode(ctx) = QUEUE_OVERFLOW
           /\ SamePrefix(QueueOf(ctx), obs.pushed, CapOf(ctx) - 1)

\* C4: after N > capacity pushes with no pop in between (at least one push
\* met a full queue) the queue holds capacity entries, its last entry is -350
\* and its first capacity-1 entries are the oldest pushed errors in order; the
\* entries popped afterwards are those capacity-1 errors in FIFO order,
\* followed by the -350 entry.
C4_Overflow ==
    /\ (obs.phase = "push" /\ Len(obs.pushed) > CapOf(ctx))
         => /\ ErrorQueue_count(ctx.errorQueue) = CapOf(ctx)
            /\ TailCode(ctx) = QUEUE_OVERFLOW
            /\ SamePrefix(QueueOf(ctx), obs.pushed, CapOf(ctx) - 1)
    /\ (obs.phase = "pop" /\ Len(obs.pushed) > CapOf(ctx))
         => /\ Len(obs.popped) + ErrorQueue_count(ctx.errorQueue) = CapOf(ctx)
            /\ SamePrefix(obs.popped, obs.pushed, Min(Len(obs.popped), CapOf(ctx) - 1))
            /\ Len(obs.popped) = CapOf(ctx) => obs.popped[CapOf(ctx)].code = QUEUE_OVERFLOW

\* Witness of C4: an overflowed queue of capacity 2 popped down to empty.
C4_Witness ==
    /\ obs.phase = "pop" /\ CapOf(ctx) = 2 /\ Len(obs.pushed) > 2
    /\ Len(obs.popped) = 2 /\ QueueOf(ctx) = <<>>
    /\ obs.pushed[2].code # QUEUE_OVERFLOW

\* C5 as stated: once a push has dropped an entry, the tail is -350 in every state
\* until the queue has been drained to empty.
C5_Original ==
    obs.everDropped => (QueueOf(ctx) # <<>> /\ TailCode(ctx) = QUEUE_OVERFLOW)

\* The step took the -350 entry from the tail of a queue that had dropped a
\* push: it emptied the queue (pop of the last entry, popAll, clear), or
\* setMaxSize cut entries off its back, or a push was accepted behind the
\* -350 entry, the queue being shorter than its capacity (after a pop, or
\* after setMaxSize raised the capacity).
C5_Released ==
    \/ QueueOf(ctx') = <<>>
    \/ /\ Len(QueueOf(ctx')) < Len(QueueOf(ctx))
       /\ QueueOf(ctx') = SubSeq(QueueOf(ctx), 1, Len(QueueOf(ctx')))
       /\ CapOf(ctx') = Len(QueueOf(ctx'))
    \/ /\ Len(QueueOf(ctx)) < CapOf(ctx) /\ CapOf(ctx') = CapOf(ctx)
       /\ Len(QueueOf(ctx')) = Len(QueueOf(ctx)) + 1
       /\ SubSeq(QueueOf(ctx'), 1, Len(QueueOf(ctx))) = QueueOf(ctx)

\* C5: once a push has dropped an entry, the tail is -350 in every
\* state, through pops, further dropped pushes and calls of setMaxSize that
\* cut nothing off, until the queue is emptied, or setMaxSize truncates it,
\* or a later push is accepted (it is queued behind the -350 entry, after a
\* pop or a setMaxSize raising the capacity made room); nothing else ends it.
C5_UntilRemoved ==
    /\ [](obs.dropped => (QueueOf(ctx) # <<>> /\ TailCode(ctx) = QUEUE_OVERFLOW))
    /\ [][obs.dropped /\ ~obs'.dropped => C5_Released]_vars
    /\ [][(\E code \in PushCodes \ {NO_ERROR} : QPush(code)) /\ Len(QueueOf(ctx)) >= CapOf(ctx)
            => obs'.dropped /\ QueueOf(ctx') # <<>> /\ TailCode(ctx') = QUEUE_OVERFLOW]_vars

\* Witness of C5: a queue of capacity 1 dropped a push, setMaxSize raised
\* its capacity to 2 and cut nothing off, and the -350 entry is still the
\* tail; the next accepted push will be queued behind it.
C5_Witness ==
    /\ obs.dropped /\ CapOf(ctx) = 2 /\ ctx.errorQueue.overflowCount >= 1
    /\ Codes(QueueOf(ctx)) = <<QUEUE_OVERFLOW>> /\ obs.popped = <<>> /\ obs.phase = "mixed"

(***************************************************************************)
(* Two threads call executeAll on the same Parser, each with a Context of  *)
(* its own.  In this specification ctx, pc, cmds, idx, lastRc, ret and rr  *)
(* are functions of the thread: the Context a thread passes in and the     *)
(* locals of its call.  tree, commonCommands and pathContext are the       *)
(* members of the one Parser.  A step is a stretch of a call between two   *)
(* accesses to pathContext_: the reset at the start of the call, the read  *)
(* by resolver.resolve, the two reads of pathContext_.currentNode() in     *)
(* updatePathContextAfterResolve (its test against nullptr and its value)  *)
(* and the write of setCurrent.  rr keeps, with the ResolveResult, the     *)
(* local startNode of the update.  The accesses are unsynchronized; each   *)
(* interleaving of them is a run the program can make.  obs keeps for each *)
(* thread the number of its calls, own, the PathContext its own call last  *)
(* wrote, start, the PathContext its last resolve read, and foreign,       *)
(* whether the resolve of a relative command of the call read a            *)
(* PathContext other than own.  setAutoResetContext is called, if at all,  *)
(* before the threads start.                                               *)
(***************************************************************************)
Threads == {1, 2}
MaxThreadCalls == 1     \* executeAll calls of one thread

ThreadMessages ==
    SplitsOf({":SOUR:FREQ 1000;AMPL 5", ":OUTP ON", "*IDN?", "*",
              ":X (@2147483646:2147483647)"}) \cup {TooLongMessage}

InitThreads ==
    /\ ctx = [t \in Threads |-> Context_new(MaxCap)]
    /\ tree = InstrumentTree
    /\ commonCommands = InstrumentCommon
    /\ autoResetContext \in BOOLEAN
    /\ pathContext = NullNode
    /\ pc = [t \in Threads |-> "idle"]
    /\ cmds = [t \in Threads |-> <<>>]
    /\ idx = [t \in Threads |-> 0]
    /\ lastRc = [t \in Threads |-> 0]
    /\ ret = [t \in Threads |-> 0]
    /\ rr = [t \in Threads |-> <<>>]
    /\ obs = [t \in Threads |->
                [calls |-> 0, input |-> "", own |-> NullNode, start |-> NullNode,
                 resolved |-> 0, foreign |-> FALSE]]

\* Thread t calls executeAll: size check, reset of the PathContext, split.
\* On a message the splitter does not return from, the call has made its
\* reset and stays in split.
ThreadBegin(t, m) ==
    LET sp == m.sp
        code == IF sp.errorCode = 0 THEN SYNTAX_ERROR ELSE sp.errorCode
    IN  /\ pc[t] = "idle" /\ obs[t].calls < MaxThreadCalls
        /\ pathContext' = IF autoResetContext /\ m.length <= MAX_INPUT_SIZE THEN NullNode
                          ELSE pathContext
        /\ obs' = [obs EXCEPT ![t] = [@ EXCEPT !.calls = @ + 1, !.input = m.input,
                                               !.own = pathContext', !.start = NullNode,
                                               !.resolved = 0, !.foreign = FALSE]]
        /\ IF m.length > MAX_INPUT_SIZE
           THEN /\ ctx' = [ctx EXCEPT ![t] =
                             Context_pushStandardErrorWithInfo(@, OUT_OF_MEMORY,
                                                               "Command string too long")]
                /\ ret' = [ret EXCEPT ![t] = OUT_OF_MEMORY]
                /\ UNCHANGED <<cmds, idx, lastRc, pc>>
           ELSE IF ~CommandSplitter_returns(sp)
           THEN /\ pc' = [pc EXCEPT ![t] = "split"]
                /\ UNCHANGED <<ctx, cmds, idx, lastRc, ret>>
           ELSE IF sp.ok
           THEN /\ cmds' = [cmds EXCEPT ![t] = sp.commands]
                /\ idx' = [idx EXCEPT ![t] = 1]
                /\ lastRc' = [lastRc EXCEPT ![t] = 0]
                /\ pc' = [pc EXCEPT ![t] = LoopNext(0, Len(sp.commands))]
                /\ UNCHANGED <<ctx, ret>>
           ELSE /\ ctx' = [ctx EXCEPT ![t] =
                             Context_pushStandardErrorWithInfo(@, code, sp.errorMessage)]
                /\ ret' = [ret EXCEPT ![t] = code]
                /\ UNCHANGED <<cmds, idx, lastRc, pc>>
        /\ UNCHANGED <<tree, commonCommands, autoResetContext, rr>>

\* The head of a loop iteration of thread t.
ThreadCheckPending(t) ==
    LET c == ctx[t]
        code == IF Context_lastResponseWasIndefinite(c) THEN QUERY_UNTERMINATED_INDEF
                ELSE QUERY_INTERRUPTED
    IN  /\ pc[t] = "pending"
        /\ ctx' = [ctx EXCEPT ![t] =
                     IF Context_hasPendingResponse(c)
                     THEN Context_clearResponses(Context_pushStandardError(c, code))
                     ELSE c]
        /\ pc' = [pc EXCEPT ![t] = "resolve"]
        /\ UNCHANGED <<tree, commonCommands, autoResetContext, pathContext, cmds, idx, lastRc, ret, rr, obs>>

\* resolver.resolve(cmds[i], pathContext_) of thread t returned r.
ThreadResolved(t, r) ==
    LET code == IF r.errorCode # 0 THEN r.errorCode ELSE UNDEFINED_HEADER
    IN  /\ rr' = [rr EXCEPT ![t] = [result |-> r, startNode |-> NullNode]]
        /\ obs' = [obs EXCEPT ![t] = [@ EXCEPT !.start = pathContext,
                                               !.resolved = idx[t],
                                               !.foreign =
                                                  \/ @
                                                  \/ /\ ~cmds[t][idx[t]].isCommon
                                                     /\ ~cmds[t][idx[t]].isAbsolute
                                                     /\ pathContext # obs[t].own]]
        /\ IF r.success
           THEN /\ pc' = [pc EXCEPT ![t] = "execute"]
                /\ UNCHANGED <<ctx, lastRc, idx>>
           ELSE /\ ctx' = [ctx EXCEPT ![t] =
                             Context_pushStandardErrorWithInfo(@, code, r.errorMessage)]
                /\ lastRc' = [lastRc EXCEPT ![t] = code]
                /\ idx' = [idx EXCEPT ![t] = @ + 1]
                /\ pc' = [pc EXCEPT ![t] = LoopNext(idx[t], Len(cmds[t]))]
        /\ UNCHANGED <<tree, commonCommands, autoResetContext, pathContext, cmds, ret>>

ThreadResolve(t) ==
    /\ pc[t] = "resolve"
    /\ ThreadResolved(t, PathResolver_resolve(tree, commonCommands, cmds[t][idx[t]],
                                              pathContext))

\* executeResolved of thread t returned e.
ThreadExecuted(t, e) ==
    /\ ctx' = [ctx EXCEPT ![t] = e.c]
    /\ lastRc' = [lastRc EXCEPT ![t] = IF e.rc # 0 THEN e.rc ELSE @]
    /\ pc' = [pc EXCEPT ![t] = "update"]
    /\ UNCHANGED <<tree, commonCommands, autoResetContext, pathContext, cmds, idx, ret, rr, obs>>

ThreadExecute(t) ==
    /\ pc[t] = "execute"
    /\ \E undef \in UndefinedOutcomes(cmds[t][idx[t]]) :
           ThreadExecuted(t, Parser_executeResolved(tree, cmds[t][idx[t]], rr[t].result,
                                                    ctx[t], undef))

\* updatePathContextAfterResolve of thread t up to the test of
\* pathContext_.currentNode(): an absolute command starts at root without
\* reading it, and so does a relative one that finds it null.
ThreadUpdate(t) ==
    /\ pc[t] = "update"
    /\ IF cmds[t][idx[t]].isAbsolute \/ pathContext = NullNode
       THEN /\ rr' = [rr EXCEPT ![t].startNode = Root]
            /\ pc' = [pc EXCEPT ![t] = "write"]
       ELSE /\ pc' = [pc EXCEPT ![t] = "read"]
            /\ UNCHANGED rr
    /\ UNCHANGED <<ctx, tree, commonCommands, autoResetContext, pathContext, cmds, idx, lastRc, ret, obs>>

\* The second pathContext_.currentNode() of the same expression: startNode
\* is what is there by now.
ThreadUpdateRead(t) ==
    /\ pc[t] = "read"
    /\ rr' = [rr EXCEPT ![t].startNode = pathContext]
    /\ pc' = [pc EXCEPT ![t] = "write"]
    /\ UNCHANGED <<ctx, tree, commonCommands, autoResetContext, pathContext, cmds, idx, lastRc, ret, obs>>

\* pathContext_.setCurrent(newCtx) of thread t, and the end of the iteration.
ThreadUpdateWrite(t) ==
    /\ pc[t] = "write"
    /\ pathContext' = Parser_newPathContext(rr[t].startNode, rr[t].result)
    /\ obs' = [obs EXCEPT ![t] = [@ EXCEPT !.own = pathContext']]
    /\ idx' = [idx EXCEPT ![t] = @ + 1]
    /\ pc' = [pc EXCEPT ![t] = LoopNext(idx[t], Len(cmds[t]))]
    /\ UNCHANGED <<ctx, tree, commonCommands, autoResetContext, cmds, lastRc, ret, rr>>

\* return lastRc of thread t.
ThreadReturn(t) ==
    /\ pc[t] = "return"
    /\ ret' = [ret EXCEPT ![t] = lastRc[t]]
    /\ pc' = [pc EXCEPT ![t] = "idle"]
    /\ cmds' = [cmds EXCEPT ![t] = <<>>]
    /\ idx' = [idx EXCEPT ![t] = 0]
    /\ lastRc' = [lastRc EXCEPT ![t] = 0]
    /\ rr' = [rr EXCEPT ![t] = <<>>]
    /\ UNCHANGED <<ctx, tree, commonCommands, autoResetContext, pathContext, obs>>

NextThreads ==
    \/ \E t \in Threads : \E m \in ThreadMessages : ThreadBegin(t, m)
    \/ \E t \in Threads : ThreadCheckPending(t)
    \/ \E t \in Threads : ThreadResolve(t)
    \/ \E t \in Threads : ThreadExecute(t)
    \/ \E t \in Threads : ThreadUpdate(t)
    \/ \E t \in Threads : ThreadUpdateRead(t)
    \/ \E t \in Threads : ThreadUpdateWrite(t)
    \/ \E t \in Threads : ThreadReturn(t)

SpecThreads == InitThreads /\ [][NextThreads]_vars

\* C16: under every interleaving, the PathContext a relative command of a
\* message is resolved against is the one the same call last wrote (root at
\* its start, then what its earlier commands left), so the message
\* :SOUR:FREQ 1000;AMPL 5 returns 0 as it does when its call runs alone.
C16_ThreadSafe ==
    \A t \in Threads :
        /\ ~obs[t].foreign
        /\ (pc[t] = "idle" /\ obs[t].input = ":SOUR:FREQ 1000;AMPL 5" /\ obs[t].calls = 1)
             => ret[t] = 0

-----------------------------------------------------------------------------
\* The error queue under two threads.  A background thread pushes; the
\* foreground thread pushes, pops, pops all and clears.  Every operation of
\* error_queue.cpp opens with std::lock_guard<std::mutex> lock(mutex_), so it
\* is modelled as: acquire mutex_, the statements of the body one step each,
\* release on return.
\*   ctx   the Context that owns the queue
\*   rr    mutex_: the thread that owns it, or "free"
\*   pc    per thread, the position inside the operation
\*   cmds  per thread, the locals of the operation (its entry, the outcome of
\*         the size test, the front entry read)
\*   obs   the operations in the order their last statement ran, replayed on
\*         a sequential queue, and what each side returned

QueueThreads == {"background", "foreground"}

MaxBgPushes == 2       \* pushes issued by the background thread
MaxFgOps == 4          \* operations issued by the foreground thread

QueueOps(t) == IF t = "background" THEN {"push"} ELSE {"push", "pop", "popAll", "clear"}

QueueOpLimit(t) == IF t = "background" THEN MaxBgPushes ELSE MaxFgOps

ThreadPushCodes == {NO_ERROR, UNDEFINED_HEADER}

\* A lock that never waits.
Mutex_available_always(m) == TRUE

\* std::lock_guard blocks until no thread owns mutex_.
Mutex_available(m) == m = "free"

InitQueueThreads ==
    /\ ctx \in {Context_new(n) : n \in 1..MaxCap}
    /\ tree = <<>> /\ commonCommands = <<>> /\ autoResetContext = TRUE /\ pathContext = <<>>
    /\ idx = 0 /\ lastRc = 0 /\ ret = 0
    /\ rr = "free"
    /\ pc = [t \in QueueThreads |-> "idle"]
    /\ cmds = [t \in QueueThreads |-> <<>>]
    /\ obs = [issued |-> [t \in QueueThreads |-> 0],
              seq |-> ctx.errorQueue,
              accepted |-> <<>>,
              popped |-> <<>>, seqPopped |-> <<>>,
              contended |-> FALSE]

queueFrame == UNCHANGED <<tree, commonCommands, autoResetContext, pathContext, idx, lastRc, ret>>

\* The call up to and including the lock_guard constructor.
QueueLock(t, op, code) ==
    /\ pc[t] = "idle"
    /\ obs.issued[t] < QueueOpLimit(t)
    /\ op \in QueueOps(t)
    /\ Mutex_available(rr)
    /\ rr' = t
    /\ pc' = [pc EXCEPT ![t] = op]
    /\ cmds' = [cmds EXCEPT ![t] =
                  [entry |-> ErrorEntry(code, t \o ToString(obs.issued[t] + 1)),
                   full |-> FALSE, front |-> NO_ERROR_ENTRY]]
    /\ obs' = [obs EXCEPT !.issued[t] = @ + 1,
                          !.contended = @ \/ \E u \in QueueThreads \ {t} :
                                                 obs.issued[u] > 0 /\ obs.issued[u] < QueueOpLimit(u)]
    /\ UNCHANGED ctx
    /\ queueFrame

\* push: the NO_ERROR test and the size test.
QueuePushCheck(t) ==
    /\ pc[t] = "push"
    /\ IF cmds[t].entry.code = NO_ERROR
       THEN /\ pc' = [pc EXCEPT ![t] = "idle"]
            /\ rr' = "free"
            /\ obs' = [obs EXCEPT !.seq = ErrorQueue_push(@, cmds[t].entry)]
            /\ UNCHANGED cmds
       ELSE /\ pc' = [pc EXCEPT ![t] = "pushApply"]
            /\ cmds' = [cmds EXCEPT ![t].full =
                            Len(ctx.errorQueue.queue) >= ctx.errorQueue.maxSize]
            /\ UNCHANGED <<rr, obs>>
    /\ UNCHANGED ctx
    /\ queueFrame

\* push: the overflow branch or push_back, then the return.
QueuePushApply(t) ==
    /\ pc[t] = "pushApply"
    /\ ctx' = [ctx EXCEPT !.errorQueue =
                  IF cmds[t].full THEN ErrorQueue_overflow(@)
                  ELSE [@ EXCEPT !.queue = Append(@, cmds[t].entry)]]
    /\ obs' = [obs EXCEPT !.seq = ErrorQueue_push(@, cmds[t].entry),
                          !.accepted = IF cmds[t].full THEN @ ELSE Append(@, cmds[t].entry)]
    /\ pc' = [pc EXCEPT ![t] = "idle"]
    /\ rr' = "free"
    /\ UNCHANGED cmds
    /\ queueFrame

\* pop: the empty test and the copy of queue_.front().
QueuePopRead(t) ==
    /\ pc[t] = "pop"
    /\ IF ctx.errorQueue.queue = <<>>
       THEN /\ pc' = [pc EXCEPT ![t] = "idle"]
            /\ rr' = "free"
            /\ obs' = [obs EXCEPT !.seq = ErrorQueue_pop(@).q,
                                  !.seqPopped = Append(@, ErrorQueue_pop(obs.seq).entry),
                                  !.popped = Append(@, NO_ERROR_ENTRY)]
            /\ UNCHANGED cmds
       ELSE /\ pc' = [pc EXCEPT ![t] = "popRemove"]
            /\ cmds' = [cmds EXCEPT ![t].front = Head(ctx.errorQueue.queue)]
            /\ UNCHANGED <<rr, obs>>
    /\ UNCHANGED ctx
    /\ queueFrame

\* pop: pop_front and the return of the copy.
QueuePopRemove(t) ==
    /\ pc[t] = "popRemove"
    /\ ctx.errorQueue.queue # <<>>
    /\ ctx' = [ctx EXCEPT !.errorQueue.queue = Tail(@)]
    /\ obs' = [obs EXCEPT !.seq = ErrorQueue_pop(@).q,
                          !.seqPopped = Append(@, ErrorQueue_pop(obs.seq).entry),
                          !.popped = Append(@, cmds[t].front)]
    /\ pc' = [pc EXCEPT ![t] = "idle"]
    /\ rr' = "free"
    /\ UNCHANGED cmds
    /\ queueFrame

QueuePopAll(t) ==
    /\ pc[t] = "popAll"
    /\ ctx' = [ctx EXCEPT !.errorQueue = ErrorQueue_popAll(@).q]
    /\ obs' = [obs EXCEPT !.seq = ErrorQueue_popAll(@).q,
                          !.seqPopped = @ \o ErrorQueue_popAll(obs.seq).result,
                          !.popped = @ \o ErrorQueue_popAll(ctx.errorQueue).result]
    /\ pc' = [pc EXCEPT ![t] = "idle"]
    /\ rr' = "free"
    /\ UNCHANGED cmds
    /\ queueFrame

QueueClear(t) ==
    /\ pc[t] = "clear"
    /\ ctx' = [ctx EXCEPT !.errorQueue = ErrorQueue_clear(@)]
    /\ obs' = [obs EXCEPT !.seq = ErrorQueue_clear(@)]
    /\ pc' = [pc EXCEPT ![t] = "idle"]
    /\ rr' = "free"
    /\ UNCHANGED cmds
    /\ queueFrame

NextQueueThreads ==
    \/ \E t \in QueueThreads, op \in {"push", "pop", "popAll", "clear"}, code \in ThreadPushCodes :
          QueueLock(t, op, code)
    \/ \E t \in QueueThreads : QueuePushCheck(t)
    \/ \E t \in QueueThreads : QueuePushApply(t)
    \/ \E t \in QueueThreads : QueuePopRead(t)
    \/ \E t \in QueueThreads : QueuePopRemove(t)
    \/ \E t \in QueueThreads : QueuePopAll(t)
    \/ \E t \in QueueThreads : QueueClear(t)

SpecQueueThreads == InitQueueThreads /\ [][NextQueueThreads]_vars

\* The entries handed to push, as opposed to the -350 marker the queue writes.
PushedOnly(s) == SelectSeq(s, LAMBDA e : e.code \notin {QUEUE_OVERFLOW, NO_ERROR})

NoDuplicate(s) == \A i, j \in 1..Len(s) : s[i] = s[j] => i = j

RECURSIVE IsSubsequence(_, _)
IsSubsequence(a, b) ==
    IF a = <<>> THEN TRUE
    ELSE IF b = <<>> THEN FALSE
    ELSE IF Head(a) = Head(b) THEN IsSubsequence(Tail(a), Tail(b))
    ELSE IsSubsequence(a, Tail(b))

\* C17: with push on a background thread running against push, pop, popAll and
\* clear on the foreground, at most one operation is inside its body at a time;
\* the queue never holds more than its capacity; no pushed entry appears twice
\* among the entries popped and the entries still queued; those entries are in
\* the order in which their pushes took effect; and whenever no operation is
\* in progress the queue and everything popped so far equal what the same
\* operations give when run one after the other in the order they completed.
C17_QueueAtomic ==
    /\ Cardinality({t \in QueueThreads : pc[t] # "idle"}) <= 1
    /\ Len(ctx.errorQueue.queue) <= ctx.errorQueue.maxSize
    /\ NoDuplicate(PushedOnly(obs.popped \o ctx.errorQueue.queue))
    /\ IsSubsequence(PushedOnly(obs.popped \o ctx.errorQueue.queue), obs.accepted)
    /\ (\A t \in QueueThreads : pc[t] = "idle")
         => /\ ctx.errorQueue = obs.seq
            /\ obs.popped = obs.seqPopped

\* Both threads pushed while the other still had operations to issue, a push
\* met the full queue, and the pops handed out an entry of each thread.
C17_Witness ==
    /\ obs.contended
    /\ ctx.errorQueue.hasOverflowed
    /\ \E i, j \in 1..Len(obs.popped) :
          /\ i < j
          /\ obs.popped[i].message = "foreground1"
          /\ obs.popped[j].message = "background1"

-----------------------------------------------------------------------------
\* A Context used directly, as the tests of context.cpp and a host that reads
\* responses do: handlers' output calls, the two pop calls, and the head of a
\* loop iteration of executeAll (a command begins).
\*   ctx   the Context
\*   pc    "context"
\*   obs   the last operation: its name, its argument, the Context before it,
\*         the value it returned; and what the host last retrieved

MaxContextOps == 4     \* operations applied to the Context in one run

BlockPayloads == {<<>>, <<65>>, <<65, 66>>}

TextResults == {Lit("1"), Lit("ON")}

\* The query-sequence check at the head of a loop iteration of executeAll.
Parser_checkPendingResponse(c) ==
    IF Context_hasPendingResponse(c)
    THEN Context_clearResponses(
             Context_pushStandardError(c, IF Context_lastResponseWasIndefinite(c)
                                          THEN QUERY_UNTERMINATED_INDEF
                                          ELSE QUERY_INTERRUPTED))
    ELSE c

InitContext ==
    /\ \E text \in BOOLEAN, bin \in BOOLEAN :
          LET c0 == Context_new(MaxCap)
              c1 == IF text THEN Context_setOutputCallback(c0) ELSE c0
          IN  ctx = IF bin THEN Context_setBinaryOutputCallback(c1) ELSE c1
    /\ parserIdle
    /\ pc = "context"
    /\ obs = [n |-> 0, op |-> "", arg |-> <<>>, value |-> Lit(""), before |-> ctx,
              retrieved |-> 0, retrievedIndefinite |-> FALSE, begunSince |-> FALSE]

contextFrame ==
    UNCHANGED <<tree, commonCommands, autoResetContext, pathContext, pc, cmds, idx, lastRc, ret, rr>>

\* The record of an output operation.
Emitted(op, arg) ==
    [obs EXCEPT !.n = @ + 1, !.op = op, !.arg = arg, !.value = Lit(""), !.before = ctx]

\* The record of a pop that returned r.
Retrieved(op, r) ==
    [obs EXCEPT !.n = @ + 1, !.op = op, !.arg = <<>>, !.value = r.value,
                !.before = ctx,
                !.retrieved = IF ctx.responses # <<>> THEN @ + 1 ELSE @,
                !.retrievedIndefinite =
                    IF ctx.responses # <<>> THEN Head(ctx.responses).indefinite ELSE @,
                !.begunSince = IF ctx.responses # <<>> THEN FALSE ELSE @]

CtxResult(s) ==
    /\ pc = "context"
    /\ obs.n < MaxContextOps
    /\ ctx' = Context_result(ctx, s)
    /\ obs' = Emitted("result", s)
    /\ contextFrame

CtxResultBlock(data) ==
    /\ pc = "context"
    /\ obs.n < MaxContextOps
    /\ ctx' = Context_resultBlock(ctx, data)
    /\ obs' = Emitted("resultBlock", data)
    /\ contextFrame

CtxResultIndefiniteBlock(data) ==
    /\ pc = "context"
    /\ obs.n < MaxContextOps
    /\ ctx' = Context_resultIndefiniteBlock(ctx, data)
    /\ obs' = Emitted("resultIndefiniteBlock", data)
    /\ contextFrame

CtxPopTextResponse ==
    /\ pc = "context"
    /\ obs.n < MaxContextOps
    /\ ctx' = Context_popTextResponse(ctx).c
    /\ obs' = Retrieved("popTextResponse", Context_popTextResponse(ctx))
    /\ contextFrame

CtxPopBinaryResponse ==
    /\ pc = "context"
    /\ obs.n < MaxContextOps
    /\ ctx' = Context_popBinaryResponse(ctx).c
    /\ obs' = Retrieved("popBinaryResponse", Context_popBinaryResponse(ctx))
    /\ contextFrame

CtxCommandBegins ==
    /\ pc = "context"
    /\ obs.n < MaxContextOps
    /\ ctx' = Parser_checkPendingResponse(ctx)
    /\ obs' = [obs EXCEPT !.n = @ + 1, !.op = "commandBegins", !.arg = <<>>,
                          !.value = Lit(""), !.before = ctx, !.begunSince = TRUE]
    /\ contextFrame

NextContext ==
    \/ \E s \in TextResults : CtxResult(s)
    \/ \E data \in BlockPayloads : CtxResultBlock(data)
    \/ \E data \in BlockPayloads : CtxResultIndefiniteBlock(data)
    \/ CtxPopTextResponse
    \/ CtxPopBinaryResponse
    \/ CtxCommandBegins

SpecContext == InitContext /\ [][NextContext]_vars

\* The entries the last operation added to the error queue, when nothing
\* overflowed.
NewErrors == SubSeq(ctx.errorQueue.queue, Len(obs.before.errorQueue.queue) + 1,
                    Len(ctx.errorQueue.queue))

LastWasPop == obs.op \in {"popTextResponse", "popBinaryResponse"}

RoomInQueue == Len(obs.before.errorQueue.queue) < obs.before.errorQueue.maxSize

\* The content of a buffered item: its text or its bytes.
ItemValue(it) == IF it.type = "Text" THEN it.text ELSE Raw(it.bin)

\* C18: popTextResponse and popBinaryResponse on an empty buffer return an
\* empty value and push exactly one -420 "Query UNTERMINATED" entry, which
\* the error queue appends when it has room; on a
\* non-empty buffer they return the oldest response, leave the later ones in
\* place and add nothing to the error queue.
C18_PopResponse ==
    LastWasPop =>
        IF obs.before.responses = <<>>
        THEN /\ obs.value = Lit("")
             /\ ctx.responses = <<>>
             /\ ctx.errorQueue = ErrorQueue_push(obs.before.errorQueue,
                                   ErrorEntry(QUERY_UNTERMINATED, "Query UNTERMINATED"))
             /\ RoomInQueue =>
                   /\ Len(NewErrors) = 1
                   /\ NewErrors[1].code = QUERY_UNTERMINATED
                   /\ NewErrors[1].message = "Query UNTERMINATED"
        ELSE /\ obs.value = ItemValue(Head(obs.before.responses))
             /\ ctx.responses = Tail(obs.before.responses)
             /\ ctx.errorQueue = obs.before.errorQueue
             /\ ctx.status = obs.before.status

\* Both cases of a pop have happened in one run: a pop retrieved a buffered
\* response, and the next pop met the empty buffer.
C18_Witness ==
    /\ obs.op = "popBinaryResponse"
    /\ obs.retrieved = 1
    /\ obs.before.responses = <<>>
    /\ Len(ctx.errorQueue.queue) = 1
    /\ ctx.errorQueue.queue[1].code = QUERY_UNTERMINATED


\* A pop met the empty buffer after the host had retrieved an indefinite block
\* and a command had begun since.
PopAfterIndefinite ==
    /\ LastWasPop
    /\ obs.before.responses = <<>>
    /\ obs.retrieved > 0
    /\ obs.retrievedIndefinite
    /\ obs.begunSince

\* C19 as stated: a pop on a buffer that is empty because the last item
\* retrieved was an indefinite block, after a new command has begun, queues
\* -440 instead of -420.
C19_Original ==
    (PopAfterIndefinite /\ RoomInQueue) =>
        /\ Len(NewErrors) = 1
        /\ NewErrors[1].code = QUERY_UNTERMINATED_INDEF

\* C19: a pop on an empty buffer queues -420 whatever was retrieved before it
\* and whether or not a command has begun since, and retrieving the last
\* buffered item clears the indefinite mark; -440 is queued only when a command
\* begins while an indefinite block is still unread in the buffer.
C19_PopAfterIndefinite ==
    /\ (LastWasPop /\ obs.before.responses = <<>> /\ RoomInQueue)
          => /\ Len(NewErrors) = 1
             /\ NewErrors[1].code = QUERY_UNTERMINATED
    /\ (LastWasPop /\ ctx.responses = <<>>) => ~ctx.lastResponseIndefinite
    /\ (obs.n > 0 /\ RoomInQueue /\ NewErrors # <<>>
          /\ NewErrors[1].code = QUERY_UNTERMINATED_INDEF)
          => /\ obs.op = "commandBegins"
             /\ obs.before.responses # <<>>
             /\ obs.before.responses[Len(obs.before.responses)].indefinite
    /\ (obs.op = "commandBegins" /\ RoomInQueue /\ obs.before.responses # <<>>
          /\ obs.before.responses[Len(obs.before.responses)].indefinite)
          => /\ Len(NewErrors) = 1
             /\ NewErrors[1].code = QUERY_UNTERMINATED_INDEF
             /\ ctx.responses = <<>>

\* The host retrieved an indefinite block, a command began, and the next pop
\* met the empty buffer and queued -420.
C19_Witness ==
    /\ PopAfterIndefinite
    /\ obs.op = "popBinaryResponse"
    /\ Len(ctx.errorQueue.queue) = 1
    /\ ctx.errorQueue.queue[1].code = QUERY_UNTERMINATED

\* The pieces a block is framed from.
BlockFrame(op, data) ==
    IF op = "resultBlock"
    THEN [head |-> Context_makeBlockHeader(Len(data)), tail |-> <<>>]
    ELSE [head |-> <<35, 48>>, tail |-> <<10>>]

LastWasBlock == obs.op \in {"resultBlock", "resultIndefiniteBlock"}

\* C20: a block response goes to exactly one sink.  With a binary-output
\* callback registered the callback is handed the header, then the payload
\* when it is not empty (then the terminator of an indefinite block), and the
\* text callback and the buffer get nothing; otherwise with a text-output
\* callback registered that callback is handed header and payload as one
\* text, and nothing is buffered; otherwise the framed block is appended to
\* the response buffer as one binary item.
C20_BlockRouting ==
    LastWasBlock =>
        LET b == obs.before
            f == BlockFrame(obs.op, obs.arg)
            pieces == <<f.head>> \o (IF obs.arg # <<>> THEN <<obs.arg>> ELSE <<>>)
                               \o (IF f.tail # <<>> THEN <<f.tail>> ELSE <<>>)
            framed == f.head \o obs.arg \o f.tail
        IN  IF b.binaryOutputCallback
            THEN /\ ctx.binOut = b.binOut \o pieces
                 /\ ctx.textOut = b.textOut
                 /\ ctx.responses = b.responses
            ELSE IF b.outputCallback
            THEN /\ ctx.textOut = Append(b.textOut, Raw(framed))
                 /\ ctx.binOut = b.binOut
                 /\ ctx.responses = b.responses
            ELSE /\ ctx.responses = Append(b.responses,
                                       [type |-> "Binary", text |-> Lit(""), bin |-> framed,
                                        indefinite |-> obs.op = "resultIndefiniteBlock"])
                 /\ ctx.textOut = b.textOut
                 /\ ctx.binOut = b.binOut

\* A definite block with a payload was sent on a Context that has both
\* callbacks registered, and only the binary callback was handed it.
C20_Witness ==
    /\ obs.op = "resultBlock"
    /\ obs.arg = <<65, 66>>
    /\ ctx.binaryOutputCallback /\ ctx.outputCallback
    /\ ctx.binOut = << <<35, 49, 50>>, <<65, 66>> >>
    /\ ctx.textOut = <<>>

-----------------------------------------------------------------------------
\* A block sent by resultBlock, read by the host from the response buffer
\* and presented to the splitter again, alone and as the parameter of a
\* command; and a block header that declares a length with less data behind
\* it.
\*   ctx   the Context the block is sent on
\*   pc    "emit", "read", "parse", "done"
\*   obs   the payload, the bytes read back, the text put before them, the
\*         declared length and what the splitter made of the message

MaxBlockLen == 2       \* longest payload enumerated in full

BlockBytes == {10, 32, 35, 48, 59, 65}

RECURSIVE BytesUpTo(_)
BytesUpTo(n) ==
    IF n = 0 THEN {<<>>}
    ELSE BytesUpTo(n - 1)
         \cup {Append(b, x) : b \in {c \in BytesUpTo(n - 1) : Len(c) = n - 1}, x \in BlockBytes}

\* A payload whose length takes two digits.
LongPayload == <<35, 49, 50, 59, 10, 65, 65, 32, 48, 48, 59, 35>>

RoundTripPayloads == BytesUpTo(MaxBlockLen) \cup {LongPayload}

MessagePrefixes == {"", ":DATA:UPL ", ":DATA:UPL 1,"}

DeclaredLengths ==
    {2, MAX_BLOCK_DATA_SIZE, MAX_BLOCK_DATA_SIZE + 1, 999999991}

InitBlock ==
    /\ ctx = Context_new(MaxCap)
    /\ parserIdle
    /\ pc = "emit"
    /\ obs = [b |-> <<>>, out |-> <<>>, prefix |-> "", declared |-> 0, lexerMessage |-> "",
              sp |-> [ok |-> FALSE, n |-> 0, params |-> <<>>, errorCode |-> 0,
                      errorMessage |-> ""]]

blockFrame == UNCHANGED <<tree, commonCommands, autoResetContext, pathContext, cmds, idx, lastRc, ret, rr>>

\* What is kept of a split: success, the number of commands, the parameters
\* of the first command, the error.
SplitSummary(sp) ==
    [ok |-> sp.ok,
     n |-> Len(sp.commands),
     params |-> IF sp.commands # <<>> THEN sp.commands[1].params ELSE <<>>,
     errorCode |-> sp.errorCode,
     errorMessage |-> sp.errorMessage]

\* A handler sends the block.
BlockEmit(b) ==
    /\ pc = "emit"
    /\ ctx' = Context_resultBlock(ctx, b)
    /\ obs' = [obs EXCEPT !.b = b]
    /\ pc' = "read"
    /\ blockFrame

\* The host reads the response.
BlockRead ==
    /\ pc = "read"
    /\ ctx' = Context_popBinaryResponse(ctx).c
    /\ obs' = [obs EXCEPT !.out = Context_popBinaryResponse(ctx).value.raw]
    /\ pc' = "parse"
    /\ blockFrame

\* The bytes read are split as a program message, after prefix.
BlockParse(prefix) ==
    /\ pc = "parse"
    /\ \E sp \in CommandSplitter_splits(prefix \o StringOf(obs.out)) :
           obs' = [obs EXCEPT !.prefix = prefix, !.sp = SplitSummary(sp)]
    /\ pc' = "done"
    /\ UNCHANGED ctx
    /\ blockFrame

\* A message whose block header is the one makeBlockHeader writes for len
\* bytes, with one byte of data behind it, given to the lexer and to the
\* splitter.
BlockDeclared(len) ==
    /\ pc = "emit"
    /\ \E sp \in CommandSplitter_splits(
                      ":DATA:UPL " \o StringOf(Context_makeBlockHeader(len)) \o "A") :
           obs' = [obs EXCEPT !.prefix = ":DATA:UPL ", !.declared = len,
                              !.lexerMessage =
                                  Lexer_nextToken(StringOf(Context_makeBlockHeader(len)) \o "A", 0)
                                      .tok.errorMessage,
                              !.sp = SplitSummary(sp)]
    /\ pc' = "done"
    /\ UNCHANGED ctx
    /\ blockFrame

NextBlock ==
    \/ \E b \in RoundTripPayloads : BlockEmit(b)
    \/ BlockRead
    \/ \E prefix \in MessagePrefixes : BlockParse(prefix)
    \/ \E len \in DeclaredLengths : BlockDeclared(len)

SpecBlock == InitBlock /\ [][NextBlock]_vars

IsBlockParameter(p, b) == p.type = "BLOCK_DATA" /\ p.blockData = b

\* C21 as stated: the output of resultBlock(b), parsed as a program message,
\* yields a single block-data parameter whose bytes equal b.
C21_Original ==
    (pc = "done" /\ obs.declared = 0 /\ obs.prefix = "")
        => /\ obs.sp.ok
           /\ obs.sp.n = 1
           /\ Len(obs.sp.params) = 1
           /\ IsBlockParameter(obs.sp.params[1], obs.b)

\* C21: the output of resultBlock(b) is '#', the number of length digits, the
\* length and the bytes of b.  Written after a command header and a space it
\* is split into one command with a single block-data parameter whose bytes
\* equal b, whatever bytes b holds; after another parameter it is the second
\* parameter.  Alone it is no program message: the splitter reports -102,
\* "Expected command identifier".  A block header that declares more than
\* MAX_BLOCK_DATA_SIZE bytes is refused by the lexer before it looks at the
\* data, so that the round trip holds for blocks of up to MAX_BLOCK_DATA_SIZE
\* bytes only.
C21_BlockRoundTrip ==
    /\ (pc \in {"parse", "done"} /\ obs.declared = 0)
          => obs.out = <<35, 48 + Len(DecDigits(Len(obs.b)))>> \o DecDigits(Len(obs.b)) \o obs.b
    /\ (pc = "done" /\ obs.declared = 0 /\ obs.prefix = ":DATA:UPL ")
          => /\ obs.sp.ok
             /\ obs.sp.n = 1
             /\ Len(obs.sp.params) = 1
             /\ IsBlockParameter(obs.sp.params[1], obs.b)
    /\ (pc = "done" /\ obs.declared = 0 /\ obs.prefix = ":DATA:UPL 1,")
          => /\ obs.sp.ok
             /\ obs.sp.n = 1
             /\ Len(obs.sp.params) = 2
             /\ IsBlockParameter(obs.sp.params[2], obs.b)
    /\ (pc = "done" /\ obs.declared = 0 /\ obs.prefix = "")
          => /\ ~obs.sp.ok
             /\ obs.sp.errorCode = SYNTAX_ERROR
             /\ obs.sp.errorMessage = "Expected command identifier"
    /\ (pc = "done" /\ obs.declared > MAX_BLOCK_DATA_SIZE)
          => /\ ~obs.sp.ok
             /\ obs.sp.errorCode = SYNTAX_ERROR
             /\ obs.lexerMessage = "Block data too large (exceeds MAX_BLOCK_DATA_SIZE)"
    /\ (pc = "done" /\ obs.declared > 1 /\ obs.declared <= MAX_BLOCK_DATA_SIZE)
          => /\ ~obs.sp.ok
             /\ obs.lexerMessage = "Block data truncated: expected " \o ToString(obs.declared)
                                       \o " bytes, got 1"

\* The twelve-byte payload, which holds '#', ';', a line end and digits, came
\* back as the single parameter of the command.
C21_Witness ==
    /\ pc = "done"
    /\ obs.b = LongPayload
    /\ obs.prefix = ":DATA:UPL "
    /\ obs.sp.ok
    /\ obs.sp.params[1].blockData = LongPayload


(***************************************************************************)
(* A second instrument for the dispatcher: one command for each handler    *)
(* return code, the SOURce subsystem, one indefinite-block query and the   *)
(* default common and SYSTem commands.  The dispatcher is the one of Spec. *)
(***************************************************************************)
LabCommands ==
    <<[query |-> FALSE, pattern |-> ":SOURce:FREQuency", handler |-> "set"],
      [query |-> FALSE, pattern |-> ":SOURce:AMPLitude", handler |-> "set"],
      [query |-> TRUE, pattern |-> ":DATA:INDEF?", handler |-> "readIndef"],
      [query |-> FALSE, pattern |-> ":RET:A", handler |-> ReturnHandler(0)],
      [query |-> FALSE, pattern |-> ":RET:B", handler |-> ReturnHandler(-1)],
      [query |-> FALSE, pattern |-> ":RET:C", handler |-> ReturnHandler(-99)],
      [query |-> FALSE, pattern |-> ":RET:D", handler |-> ReturnHandler(-100)],
      [query |-> FALSE, pattern |-> ":RET:E", handler |-> ReturnHandler(-499)],
      [query |-> FALSE, pattern |-> ":RET:F", handler |-> ReturnHandler(-500)],
      [query |-> FALSE, pattern |-> ":RET:G", handler |-> ReturnHandler(7)],
      [query |-> FALSE, pattern |-> ":RET:H", handler |-> ReturnHandler(INT32_MAX)],
      [query |-> FALSE, pattern |-> ":RET:I", handler |-> ReturnHandler(-INT32_MAX - 1)],
      [query |-> FALSE, pattern |-> ":RET:P", handler |-> "pushAndReturnMinus1"]>>

LabTree ==
    Parser_registerAll(Parser_registerDefaultSystemCommands(CommandTree_new), LabCommands, 1)

LabMessages ==
    {":RET:A", ":RET:B", ":RET:C", ":RET:D", ":RET:E", ":RET:F", ":RET:G", ":RET:H", ":RET:I",
     ":RET:P", ":RET:G;:RET:A",
     "*ESE 32", "*SRE 16", "*SRE 64;:BAD", "*ESE 32;*SRE 32;:BAD",
     ":SOUR:FREQ 1;*OPC;AMPL 2", ":SOUR:FREQ 1;*OPC?;AMPL 2", "*OPC;AMPL 2",
     "*IDN?", "*IDN?;*OPC?", ":DATA:INDEF?;*OPC?", "", "*IDN?;:X $",
     "*STB?", "*IDN?;*STB?"}

LabSplitMessages == SplitsOf(LabMessages)

\* The Context is buffered, or has a text or only a binary output callback.
InitLab ==
    /\ ctx \in {Context_new(MaxCap), Context_setOutputCallback(Context_new(MaxCap)),
                Context_setBinaryOutputCallback(Context_new(MaxCap))}
    /\ tree = LabTree
    /\ commonCommands = InstrumentCommon
    /\ autoResetContext = TRUE
    /\ pathContext = NullNode
    /\ pc = "idle"
    /\ cmds = <<>> /\ idx = 0 /\ lastRc = 0 /\ ret = 0 /\ rr = <<>>
    /\ obs = NoCall

NextLab ==
    \/ \E m \in LabSplitMessages : ExecuteAll_reject(m)
    \/ \E m \in LabSplitMessages : ExecuteAll_begin(m)
    \/ \E v \in BOOLEAN : Parser_setAutoResetContext(v)
    \/ Parser_resetContext
    \/ CheckPending
    \/ ResolveOk
    \/ ResolveFail
    \/ Execute
    \/ Return
    \/ HostRead

SpecLab == InitLab /\ [][NextLab]_vars


\* The iteration of the loop that just ended called a handler.
HandlerReturned == pc \in {"pending", "return"} /\ obs.it.done /\ obs.it.invoked # NullHandler

\* The code the dispatcher is to make of a handler's return value.
Normalized(raw) ==
    IF raw = 0 THEN 0
    ELSE IF raw >= -499 /\ raw <= -100 THEN raw
    ELSE IF raw > 0 THEN raw
    ELSE -200

\* C23: the dispatcher normalizes every handler return code before it returns
\* or queues it: 0 stays 0, a code in -499..-100 and a positive code pass
\* through, every other negative code becomes -200.  The normalized code is
\* what the loop keeps as its result, what executeAll returns for a
\* one-command message, and the only code the dispatcher queues for the
\* handler -- which it does whenever the code is not 0 and the handler queued
\* no error itself.
C23_Normalization ==
    /\ HandlerReturned =>
          LET n == Normalized(obs.it.raw)
          IN  /\ n # 0 => lastRc = n
              /\ obs.it.queued \in {<<>>, <<n>>}
              /\ n = 0 => obs.it.queued = <<>>
              /\ (n # 0 /\ obs.it.pushed = <<>>) => obs.it.queued = <<n>>
    /\ (pc = "idle" /\ obs.it.done /\ obs.it.invoked # NullHandler /\ obs.parsed = 1) =>
          ret = Normalized(obs.it.raw)

C23_Witness ==
    /\ HandlerReturned
    /\ obs.it.raw = -99
    /\ lastRc = -200
    /\ obs.it.queued = <<-200>>
    /\ ctx.errorQueue.queue[Len(ctx.errorQueue.queue)].code = -200


\* Bit k of the byte v.
BitSet(v, k) == (v \div (2 ^ k)) % 2 = 1

\* C24: computeSTB returns a byte in which bit 2 (EAV) is set iff the error
\* queue is non-empty, bit 4 (MAV) iff the response buffer is non-empty and
\* no output callback is registered, bit 5 (ESB) iff ESR and ESE share a
\* bit, bit 6 (MSS) iff one of these three bits is set in the byte and in
\* SRE (bit 6 of SRE alone never sets it), and every other bit is 0.
C24_StatusByte ==
    LET stb == Context_computeSTB(ctx)
    IN  /\ stb \in 0..255
        /\ BitSet(stb, 2) <=> ctx.errorQueue.queue # <<>>
        /\ BitSet(stb, 4) <=> (/\ ctx.responses # <<>>
                                /\ ~ctx.outputCallback /\ ~ctx.binaryOutputCallback)
        /\ BitSet(stb, 5) <=> \E k \in 0..7 : BitSet(ctx.status.esr, k) /\ BitSet(ctx.status.ese, k)
        /\ BitSet(stb, 6) <=> \E k \in {2, 4, 5} : BitSet(stb, k) /\ BitSet(ctx.status.sre, k)
        /\ \A k \in {0, 1, 3, 7} : ~BitSet(stb, k)

\* ESE and SRE enable the command-error bit, :BAD has failed, and a query of
\* the next message left its response in the buffer: all four bits are set.
C24_Witness ==
    /\ pc = "idle"
    /\ ctx.status.ese = 32 /\ ctx.status.sre = 32
    /\ ctx.responses # <<>>
    /\ Context_computeSTB(ctx) = 4 + 16 + 32 + 64


\* The iteration of the loop that just ended ran to its end for a common command.
CommonCommandDone ==
    /\ pc \in {"pending", "return"}
    /\ obs.it.done
    /\ cmds[obs.it.idx].isCommon

\* C27: executing an IEEE 488.2 common command (*XXX or *XXX?) leaves the
\* PathContext unchanged, so in ":SOUR:FREQ 1;*OPC;AMPL 2" the relative
\* command AMPL still resolves under SOURce.
C27_CommonKeepsContext ==
    /\ CommonCommandDone => pathContext = obs.it.ctxBefore
    /\ (pc = "execute" /\ obs.input = ":SOUR:FREQ 1;*OPC;AMPL 2" /\ idx = 3) =>
          /\ obs.it.ctxBefore = <<"SOUR">>
          /\ rr.node = <<"SOUR", "AMPL">>
    /\ (obs.input = ":SOUR:FREQ 1;*OPC;AMPL 2" /\ obs.it.idx = 3 /\ obs.it.done) =>
          /\ obs.it.resolved
          /\ obs.it.invoked = "set"

C27_Witness ==
    /\ pc = "return"
    /\ obs.input = ":SOUR:FREQ 1;*OPC;AMPL 2"
    /\ obs.invoked = <<"set", "*OPC", "set">>
    /\ obs.failedAt = 0
    /\ pathContext = <<"SOUR">>


\* What the last command of the message of the running or finished call
\* emitted into the buffer: nothing unless its iteration ran to its end.
LastCommandEmitted ==
    IF obs.it.done /\ obs.it.idx = obs.parsed THEN obs.it.emitted ELSE <<>>

IsSuffix(s, t) == Len(s) <= Len(t) /\ s = SubSeq(t, Len(t) - Len(s) + 1, Len(t))

\* The last executeAll call has returned (the host may have read since).
CallReturned == pc = "idle" /\ obs.calls > 0

\* The last executeAll call entered its loop with at least one command.
LoopRan == obs.sizeOk /\ obs.splitOk /\ obs.parsed >= 1

\* C28 as stated: after executeAll returns, whatever the message was, the
\* buffer holds only responses emitted by its last command.
C28_Original ==
    CallReturned => IsSuffix(ctx.responses, LastCommandEmitted)

\* C28: the response buffer is empty at the moment any command's handler
\* starts; a response found pending at the head of an iteration is discarded
\* and replaced by a -410 or -440 error; so after executeAll returns from a
\* message that was split into at least one command, the buffer holds only
\* responses emitted by the last command of the message.  A message that is
\* rejected or holds no command leaves the buffer as it was.
C28_BufferPerCommand ==
    /\ pc \in {"resolve", "execute"} => ctx.responses = <<>>
    /\ (pc = "resolve" /\ obs.it.pending # "none") =>
          obs.pushes[Len(obs.pushes)] =
              Push("dispatcher",
                   IF obs.it.pending = "indefinite" THEN QUERY_UNTERMINATED_INDEF
                   ELSE QUERY_INTERRUPTED,
                   "pending", idx)
    /\ (pc = "return" /\ LoopRan) => ctx.responses = LastCommandEmitted
    /\ (CallReturned /\ LoopRan) => IsSuffix(ctx.responses, LastCommandEmitted)

\* "*IDN?;*OPC?" in buffered mode: the reply to *IDN? is gone, -410 is
\* queued for it and the buffer holds the reply to *OPC? alone.
C28_Witness ==
    /\ pc = "return"
    /\ obs.input = "*IDN?;*OPC?"
    /\ obs.pushes = <<Push("dispatcher", QUERY_INTERRUPTED, "pending", 2)>>
    /\ Len(ctx.responses) = 1
    /\ ctx.responses[1].text = Lit("1")
    /\ ctx.errorQueue.queue[Len(ctx.errorQueue.queue)].code = QUERY_INTERRUPTED


\* The iteration of the loop that just ended ran the default *STB? handler.
StbReplied == pc \in {"pending", "return"} /\ obs.it.done /\ obs.it.invoked = "*STB?"

\* The decimal texts of the bytes whose bit 4 is clear.
TextsWithoutMAV == {Lit(ToString(v)) : v \in {w \in 0..255 : ~BitSet(w, 4)}}

\* C29: the value replied by the default *STB? command never has bit 4 (MAV)
\* set, in buffered mode as well as in callback mode: the status byte is
\* computed after pending responses were discarded and before the reply is
\* emitted.
C29_StbWithoutMAV ==
    StbReplied =>
        /\ (~ctx.outputCallback /\ ~ctx.binaryOutputCallback) =>
              /\ Len(ctx.responses) = 1
              /\ ctx.responses[1].text \in TextsWithoutMAV
        /\ ctx.outputCallback =>
              /\ ctx.textOut # <<>>
              /\ ctx.textOut[Len(ctx.textOut)] \in TextsWithoutMAV

\* "*IDN?;*STB?" in buffered mode: the reply to *IDN? was pending when *STB?
\* began; the reply to *STB? is 4, the EAV bit of the -410 error.
C29_Witness ==
    /\ pc = "return"
    /\ obs.input = "*IDN?;*STB?"
    /\ obs.it.invoked = "*STB?"
    /\ obs.it.pending = "definite"
    /\ Len(ctx.responses) = 1
    /\ ctx.responses[1].text = Lit("4")


\* C30: no text response is lost: for every combination of registered
\* callbacks, the text of a result(...) call is handed to the text-output
\* callback if one is registered and is otherwise appended to the response
\* buffer, in particular when only a binary-output callback is registered.
C30_NoTextLost ==
    (pc = "context" /\ obs.op = "result") =>
        IF obs.before.outputCallback
        THEN ctx.textOut = Append(obs.before.textOut, obs.arg)
        ELSE ctx.responses = Append(obs.before.responses,
                                    [type |-> "Text", text |-> obs.arg, bin |-> <<>>,
                                     indefinite |-> FALSE])


(***************************************************************************)
(* A third instrument for the dispatcher, with numeric suffixes and        *)
(* optional nodes: CHANnel takes a suffix from 1 to 4, OUTPut any positive *)
(* suffix, and TRIGger, added through CommandNode::addChild with an        *)
(* optionalRange constraint, a suffix from 1 to 4 that defaults to 2.      *)
(***************************************************************************)
NodeParamConstraint_optionalRange(min, max, defaultVal) ==
    [NodeParamConstraint_new EXCEPT !.minValue = min, !.maxValue = max, !.required = FALSE,
                                    !.defaultValue = defaultVal]

SuffixCommands ==
    <<[query |-> TRUE, pattern |-> ":CHANnel<ch:1-4>:VOLTage?", handler |-> "query1"],
      [query |-> FALSE, pattern |-> ":OUTPut<n>:STATe", handler |-> "set"],
      [query |-> TRUE, pattern |-> ":MEASure:VOLTage[:DC]?", handler |-> "query1"],
      [query |-> FALSE, pattern |-> ":SENSe[:VOLTage]:RANGe", handler |-> "set"]>>

\* tree.root()->addChild("TRIG", "TRIGger", NodeParamDef("n", optionalRange(1, 4, 2)))
\*     ->setHandler(set)
SuffixTree ==
    CommandNode_setHandler(
        CommandNode_addChild(Parser_registerAll(CommandTree_new, SuffixCommands, 1), Root,
                             "TRIG", "TRIGger",
                             [name |-> "n",
                              constraint |-> NodeParamConstraint_optionalRange(1, 4, 2)]),
        <<"TRIG">>, "set")

SuffixMessages ==
    {":CHAN2:VOLT?", ":CHANNEL4:VOLTAGE?", ":CHAN5:VOLT?", ":CHAN0:VOLT?", ":CHAN:VOLT?",
     ":MEAS2:VOLT?", ":OUTP7:STAT", ":OUTP:STAT", ":TRIG", ":TRIG3", ":TRIG5",
     ":MEAS:VOLT?", ":MEAS:VOLT:DC?", ":SENS:RANG 1", ":SENS:VOLT:RANG 1;RANG 2", ":SENS:VOLT",
     ":CHAN1:VOLT?;:CHAN9:VOLT?", "*OPC;:TRIG1", ":X $"}

SuffixSplitMessages == SplitsOf(SuffixMessages)

InitSuffix ==
    /\ ctx \in {Context_new(MaxCap), Context_setOutputCallback(Context_new(MaxCap))}
    /\ tree = SuffixTree
    /\ commonCommands = InstrumentCommon
    /\ autoResetContext = TRUE
    /\ pathContext = NullNode
    /\ pc = "idle"
    /\ cmds = <<>> /\ idx = 0 /\ lastRc = 0 /\ ret = 0 /\ rr = <<>>
    /\ obs = NoCall

NextSuffix ==
    \/ \E m \in SuffixSplitMessages : ExecuteAll_reject(m)
    \/ \E m \in SuffixSplitMessages : ExecuteAll_begin(m)
    \/ \E v \in BOOLEAN : Parser_setAutoResetContext(v)
    \/ Parser_resetContext
    \/ CheckPending
    \/ ResolveOk
    \/ ResolveFail
    \/ Execute
    \/ Return
    \/ HostRead

SpecSuffix == InitSuffix /\ [][NextSuffix]_vars


\* Whether the header mnemonic pn may match the tree node: with a suffix, a
\* node with a node parameter whose range holds the suffix; without one, a
\* node without node parameter or one whose suffix is not required.
SuffixMatches(pn, node) ==
    IF pn.hasSuffix
    THEN /\ node.paramDef.name # ""
         /\ node.paramDef.constraint.minValue <= pn.suffix
         /\ pn.suffix <= node.paramDef.constraint.maxValue
    ELSE node.paramDef.name = "" \/ ~node.paramDef.constraint.required

\* The node parameters a header binds on the nodes it consumed, from the i-th on.
RECURSIVE SuffixBindings(_, _, _)
SuffixBindings(path, consumed, i) ==
    IF i > Len(path) THEN <<>>
    ELSE LET node == tree[consumed[i]]
         IN  (IF node.paramDef.name = "" THEN <<>>
              ELSE <<NodeParamEntry(node.paramDef.name, node.shortName, node.longName,
                                    IF path[i].hasSuffix THEN path[i].suffix
                                    ELSE node.paramDef.constraint.defaultValue)>>)
             \o SuffixBindings(path, consumed, i + 1)

\* The iteration of the loop that just ended failed to resolve its command.
ResolveFailed == pc \in {"pending", "return"} /\ obs.it.done /\ ~obs.it.resolved

\* Commands (message and position) with a suffix out of range, a suffix on a
\* node without parameter, or a required suffix missing.
SuffixFailures ==
    {<<":CHAN5:VOLT?", 1>>, <<":CHAN0:VOLT?", 1>>, <<":TRIG5", 1>>,
     <<":CHAN1:VOLT?;:CHAN9:VOLT?", 2>>, <<":MEAS2:VOLT?", 1>>,
     <<":CHAN:VOLT?", 1>>, <<":OUTP:STAT", 1>>}

\* C25: a header mnemonic carrying suffix n matches only a child that has a
\* node parameter with min <= n <= max and binds that parameter to n; a
\* mnemonic without suffix matches only a child without node parameter, or
\* one whose suffix is not required, binding the default; in every other
\* case (suffix out of range, suffix on a parameterless node, required
\* suffix missing) the command fails with -113 and no handler is invoked.
C25_SuffixMatching ==
    /\ (pc = "execute" /\ ~rr.isCommon) =>
          LET path == cmds[idx].path
          IN  /\ Len(rr.consumedPath) = Len(path)
              /\ \A i \in 1..Len(path) : SuffixMatches(path[i], tree[rr.consumedPath[i]])
              /\ rr.nodeParams = SuffixBindings(path, rr.consumedPath, 1)
    /\ ResolveFailed =>
          /\ lastRc = UNDEFINED_HEADER
          /\ obs.it.invoked = NullHandler
          /\ obs.pushes[Len(obs.pushes)] =
                Push("dispatcher", UNDEFINED_HEADER, "resolve", obs.it.idx)
    /\ (obs.it.done /\ <<obs.input, obs.it.idx>> \in SuffixFailures) => ~obs.it.resolved

\* ":CHAN2:VOLT?" has resolved to CHANnel:VOLTage with ch bound to 2.
C25_Witness ==
    /\ pc = "execute"
    /\ obs.input = ":CHAN2:VOLT?"
    /\ rr.node = <<"CHAN", "VOLT">>
    /\ rr.nodeParams = <<NodeParamEntry("ch", "CHAN", "CHANnel", 2)>>


\* C26: whenever the resolver succeeds for a non-common command, the
\* consumed path has exactly as many nodes as the input header has mnemonics
\* and the resolved node is the last consumed node; resolution never ends on
\* a node entered by a trailing epsilon-move, so ":MEAS:VOLT?" against
\* ":MEASure:VOLTage[:DC]?" resolves to VOLTage, not DC.
C26_ConsumedPath ==
    /\ (pc = "execute" /\ ~rr.isCommon) =>
          /\ Len(rr.consumedPath) = Len(cmds[idx].path)
          /\ rr.node = rr.consumedPath[Len(rr.consumedPath)]
          /\ rr.node = rr.matchedPath[Len(rr.matchedPath)]
          /\ \A i \in 1..Len(cmds[idx].path) :
                CommandNode_matchName(cmds[idx].path[i].name,
                                      tree[rr.consumedPath[i]].shortName,
                                      tree[rr.consumedPath[i]].longName)
    /\ (pc = "execute" /\ obs.input = ":MEAS:VOLT?") => rr.node = <<"MEAS", "VOLT">>

\* ":MEAS:VOLT?" has resolved to VOLTage, whose optional child DC is in the tree.
C26_Witness ==
    /\ pc = "execute"
    /\ obs.input = ":MEAS:VOLT?"
    /\ rr.node = <<"MEAS", "VOLT">>
    /\ rr.consumedPath = <<(<<"MEAS">>), <<"MEAS", "VOLT">>>>
    /\ tree[<<"MEAS", "VOLT", "DC">>].isOptional

=============================================================================
